---- MODULE Spec2Model ----
(***************************************************************************)
(* The x402 pay-per-request client of src/src/x402.ts as a state machine.  *)
(*                                                                         *)
(* wrapFetchWithPayment(fetchFn, walletClient, maxValue) returns a wrapped *)
(* fetch.  One invocation of the wrapped fetch suspends at four awaits:    *)
(* the original fetchFn call, response.json(), walletClient.signTypedData  *)
(* and the retry through fetchFn.  Everything between two awaits runs      *)
(* synchronously and is one action here.  fetchFn, the server behind it,   *)
(* the signing capability, the wall clock and the random source are the    *)
(* environment: their answers are chosen nondeterministically.             *)
(***************************************************************************)
EXTENDS Integers, Sequences, FiniteSets, TLC

\* ------------------------------------------------------------------ bounds

\* Longest accepts list a challenge body carries.
MaxAccepts == 2

\* Most resources deleted on the platform behind provision's back.
MaxDeletions == 1

\* ----------------------------------------------------- program constants

PAYMENT_REQUIRED == 402
ClockSkewSeconds == 600
DefaultMaxValue == 100000
BaseChainId == 8453
BaseSepoliaChainId == 84532

\* ------------------------------------------------------------- JS values

\* The JavaScript value undefined.
Undefined == [kind |-> "undefined"]

\* A string is a sequence of one-character strings.
Digits == {"0", "1", "2", "3", "4", "5", "6", "7", "8", "9"}

DigitValue(c) ==
    CASE c = "0" -> 0 [] c = "1" -> 1 [] c = "2" -> 2 [] c = "3" -> 3
      [] c = "4" -> 4 [] c = "5" -> 5 [] c = "6" -> 6 [] c = "7" -> 7
      [] c = "8" -> 8 [] c = "9" -> 9

DigitChar(d) ==
    CASE d = 0 -> "0" [] d = 1 -> "1" [] d = 2 -> "2" [] d = 3 -> "3"
      [] d = 4 -> "4" [] d = 5 -> "5" [] d = 6 -> "6" [] d = 7 -> "7"
      [] d = 8 -> "8" [] d = 9 -> "9"

AllDigits(s) == \A k \in 1..Len(s) : s[k] \in Digits

RECURSIVE DigitsValue(_)
DigitsValue(s) ==
    IF s = <<>> THEN 0
    ELSE 10 * DigitsValue(SubSeq(s, 1, Len(s) - 1)) + DigitValue(s[Len(s)])

\* BigInt(string): the empty string is 0n, a sign may lead the digits, anything
\* else is a SyntaxError.
BigIntParses(s) ==
    \/ AllDigits(s)
    \/ Len(s) >= 2 /\ Head(s) = "-" /\ AllDigits(Tail(s))

BigIntOf(s) ==
    IF Len(s) >= 1 /\ Head(s) = "-" THEN 0 - DigitsValue(Tail(s))
    ELSE DigitsValue(s)

RECURSIVE NatToString(_)
NatToString(n) ==
    IF n < 10 THEN <<DigitChar(n)>>
    ELSE Append(NatToString(n \div 10), DigitChar(n % 10))

\* BigInt.prototype.toString().
BigIntToString(n) ==
    IF n < 0 THEN <<"-">> \o NatToString(0 - n) ELSE NatToString(n)

\* ------------------------------------------------------------- addresses

\* viem's getAddress: throws on a string that is no 20-byte hex address and
\* otherwise returns its checksummed spelling.
PayerAddress == "0xpayer"

IsAddress(a) ==
    a \in {"0xpayer", "0xPayer", "0xpayee", "0xPayee", "0xusdc", "0xUsdc"}

GetAddress(a) ==
    CASE a \in {"0xpayer", "0xPayer"} -> "0xPayer"
      [] a \in {"0xpayee", "0xPayee"} -> "0xPayee"
      [] a \in {"0xusdc", "0xUsdc"} -> "0xUsdc"
      [] OTHER -> "InvalidAddressError"

\* -------------------------------------------------------------- networks

NETWORK_CHAINS ==
    [n \in {"base", "base-sepolia"} |->
        IF n = "base" THEN BaseChainId ELSE BaseSepoliaChainId]

Chain(id) == [kind |-> "chain", id |-> id]

\* const chainId = walletClient.chain?.id, tested with !chainId / chainId ? :
\* a missing chain and a chain id of 0 are both falsy.
HasChainId(chain) == chain # Undefined /\ chain.id # 0

\* Object.entries(NETWORK_CHAINS).find(([, c]) => c.id === chainId)?.[0]
NetworkOf(chain) ==
    IF ~HasChainId(chain) THEN Undefined
    ELSE IF \E n \in DOMAIN NETWORK_CHAINS : NETWORK_CHAINS[n] = chain.id
         THEN [kind |-> "string",
               value |-> CHOOSE n \in DOMAIN NETWORK_CHAINS :
                            NETWORK_CHAINS[n] = chain.id]
         ELSE Undefined

\* ---------------------------------------------------------- requirements

UsdcExtra == [name |-> "USD Coin", version |-> "2"]

Offer(scheme, network, amount, payTo, timeout) ==
    [scheme |-> scheme, network |-> network, maxAmountRequired |-> amount,
     payTo |-> payTo, maxTimeoutSeconds |-> timeout, asset |-> "0xusdc",
     extra |-> UsdcExtra]

Amount10000 == <<"1", "0", "0", "0", "0">>
Amount100000 == <<"1", "0", "0", "0", "0", "0">>
Amount200000 == <<"2", "0", "0", "0", "0", "0">>
\* 10000 spelled with a leading zero.
Amount010000 == <<"0", "1", "0", "0", "0", "0">>

\* The offers a server puts into its challenges.
Offers ==
    { Offer("exact", "base", Amount10000, "0xpayee", 60),
      Offer("exact", "base", Amount200000, "0xpayee", 60),
      Offer("exact", "base-sepolia", Amount100000, "0xpayee", 300),
      Offer("upto", "base", Amount10000, "0xpayee", 60),
      Offer("exact", "base", Amount10000, "payee.eth", 60),
      Offer("exact", "base-sepolia", Amount010000, "0xPayee", 0 - 700),
      [Offer("exact", "base", Amount10000, "0xpayee", 60)
          EXCEPT !.asset = "usdc.eth"] }

RECURSIVE SeqsUpTo(_, _)
SeqsUpTo(S, n) ==
    IF n = 0 THEN {<<>>}
    ELSE LET shorter == SeqsUpTo(S, n - 1)
         IN  shorter \cup {Append(s, x) : s \in shorter, x \in S}

\* requirements.filter(pred), with the offers satisfying pred given as a set.
RECURSIVE Filter(_, _)
Filter(seq, keep) ==
    IF seq = <<>> THEN <<>>
    ELSE IF Head(seq) \in keep THEN <<Head(seq)>> \o Filter(Tail(seq), keep)
         ELSE Filter(Tail(seq), keep)

\* requirements[0], which is undefined on an empty array.
First(seq) == IF seq = <<>> THEN Undefined ELSE seq[1]

Range(seq) == {seq[k] : k \in 1..Len(seq)}

\* selectPaymentRequirements answering an empty list with a built-in offer.
SelectOrBuiltIn(requirements, network) ==
    LET all == IF requirements = <<>>
               THEN <<Offer("exact", "base", Amount10000, "0xpayee", 60)>>
               ELSE requirements
        matching ==
            IF network = Undefined THEN <<>>
            ELSE Filter(all, {r \in Range(all) :
                                r.scheme = "exact" /\ r.network = network.value})
        exact == Filter(all, {r \in Range(all) : r.scheme = "exact"})
    IN  IF network # Undefined /\ Len(matching) > 0 THEN matching[1]
        ELSE IF exact # <<>> THEN exact[1]
        ELSE First(all)

\* selectPaymentRequirements without the last fallback: exact[0] alone.
SelectExactOnly(requirements, network) ==
    LET matching ==
            IF network = Undefined THEN <<>>
            ELSE Filter(requirements,
                        {r \in Range(requirements) :
                            r.scheme = "exact" /\ r.network = network.value})
        exact == Filter(requirements,
                        {r \in Range(requirements) : r.scheme = "exact"})
    IN  IF network # Undefined /\ Len(matching) > 0 THEN matching[1]
        ELSE First(exact)

\* selectPaymentRequirements as a best-price search among the preferred
\* network's offers.
SelectCheapest(requirements, network) ==
    LET matching ==
            IF network = Undefined THEN <<>>
            ELSE Filter(requirements,
                        {r \in Range(requirements) :
                            r.scheme = "exact" /\ r.network = network.value})
        exact == Filter(requirements,
                        {r \in Range(requirements) : r.scheme = "exact"})
    IN  IF network # Undefined /\ Len(matching) > 0
        THEN CHOOSE r \in Range(matching) :
                \A q \in Range(matching) :
                    BigIntOf(r.maxAmountRequired) <= BigIntOf(q.maxAmountRequired)
        ELSE IF exact # <<>> THEN exact[1]
        ELSE First(requirements)

\* selectPaymentRequirements falling back to requirements[0] at once.
SelectFirstOnFallback(requirements, network) ==
    LET matching ==
            IF network = Undefined THEN <<>>
            ELSE Filter(requirements,
                        {r \in Range(requirements) :
                            r.scheme = "exact" /\ r.network = network.value})
    IN  IF network # Undefined /\ Len(matching) > 0 THEN matching[1]
        ELSE First(requirements)

\* function selectPaymentRequirements(requirements, network)
SelectPaymentRequirements(requirements, network) ==
    LET matching ==
            IF network = Undefined THEN <<>>
            ELSE Filter(requirements,
                        {r \in Range(requirements) :
                            r.scheme = "exact" /\ r.network = network.value})
        exact == Filter(requirements,
                        {r \in Range(requirements) : r.scheme = "exact"})
    IN  IF network # Undefined /\ Len(matching) > 0 THEN matching[1]
        ELSE IF exact # <<>> THEN exact[1]
        ELSE First(requirements)

\* The ceiling check taking maxValue for whole tokens of 10^6 atomic units.
ExceedsMaxValueInTokens(amount, max) == BigIntOf(amount) \div 1000000 > max

\* The ceiling test with the ceiling itself refused.
ExceedsMaxValueOrEqual(amount, max) == BigIntOf(amount) >= max

\* BigInt(selected.maxAmountRequired) > maxValue
ExceedsMaxValue(amount, max) == BigIntOf(amount) > max

\* ------------------------------------------------------ payment payloads

\* Math.floor(Date.now() / 1000) - 600, as a decimal string.
ValidAfter(nowMs) == BigIntToString((nowMs \div 1000) - ClockSkewSeconds)

\* Math.floor(Date.now() / 1000 + maxTimeoutSeconds), as a decimal string.
ValidBefore(nowMs, maxTimeoutSeconds) ==
    BigIntToString((nowMs + 1000 * maxTimeoutSeconds) \div 1000)

\* unsignedPayment with the amount parsed and printed again.
UnsignedPaymentReprinted(from, x402Version, req, now1, now2, nonce) ==
    [x402Version |-> x402Version,
     scheme |-> req.scheme,
     network |-> req.network,
     payload |->
        [signature |-> Undefined,
         authorization |->
            [from |-> from,
             to |-> req.payTo,
             value |-> BigIntToString(BigIntOf(req.maxAmountRequired)),
             validAfter |-> ValidAfter(now1),
             validBefore |-> ValidBefore(now2, req.maxTimeoutSeconds),
             nonce |-> nonce]]]

\* The unsignedPayment object of createPaymentHeader.
UnsignedPayment(from, x402Version, req, now1, now2, nonce) ==
    [x402Version |-> x402Version,
     scheme |-> req.scheme,
     network |-> req.network,
     payload |->
        [signature |-> Undefined,
         authorization |->
            [from |-> from,
             to |-> req.payTo,
             value |-> req.maxAmountRequired,
             validAfter |-> ValidAfter(now1),
             validBefore |-> ValidBefore(now2, req.maxTimeoutSeconds),
             nonce |-> nonce]]]

\* The merge that leaves the signature out.
WithoutSignature(unsigned, signature) == unsigned

\* { ...unsignedPayment, payload: { ...unsignedPayment.payload, signature } }
WithSignature(unsigned, signature) ==
    [unsigned EXCEPT !.payload.signature = signature]

\* The argument of walletClient.signTypedData built by signAuthorization.
TypedData(chain, authorization, req) ==
    [account |-> PayerAddress,
     primaryType |-> "TransferWithAuthorization",
     domain |->
        [name |-> IF req.extra = Undefined THEN Undefined
                  ELSE [kind |-> "string", value |-> req.extra.name],
         version |-> IF req.extra = Undefined THEN Undefined
                     ELSE [kind |-> "string", value |-> req.extra.version],
         chainId |-> chain.id,
         verifyingContract |-> GetAddress(req.asset)],
     message |->
        [from |-> GetAddress(authorization.from),
         to |-> GetAddress(authorization.to),
         value |-> BigIntOf(authorization.value),
         validAfter |-> BigIntOf(authorization.validAfter),
         validBefore |-> BigIntOf(authorization.validBefore),
         nonce |-> authorization.nonce]]

\* signAuthorization's arguments evaluated without getAddress on the asset.
SignAuthorizationTrustsAsset(chain, authorization, req) ==
    IF ~HasChainId(chain) THEN "Wallet client must have a chain configured"
    ELSE IF ~IsAddress(authorization.from) \/ ~IsAddress(authorization.to)
    THEN "InvalidAddressError"
    ELSE IF ~BigIntParses(authorization.value)
            \/ ~BigIntParses(authorization.validAfter)
            \/ ~BigIntParses(authorization.validBefore)
    THEN "SyntaxError"
    ELSE ""

\* What evaluating signAuthorization's arguments throws, "" when nothing.
SignAuthorizationThrows(chain, authorization, req) ==
    IF ~HasChainId(chain) THEN "Wallet client must have a chain configured"
    ELSE IF ~IsAddress(req.asset) \/ ~IsAddress(authorization.from)
            \/ ~IsAddress(authorization.to)
    THEN "InvalidAddressError"
    ELSE IF ~BigIntParses(authorization.value)
            \/ ~BigIntParses(authorization.validAfter)
            \/ ~BigIntParses(authorization.validBefore)
    THEN "SyntaxError"
    ELSE ""

\* A JSON text, as the tree of its literals: a string literal holds its
\* characters, a number literal its digits, an object its members in order.
JsonString(s) == [json |-> "string", text |-> s]
JsonNumber(n) == [json |-> "number", text |-> NatToString(n)]
JsonObject(members) == [json |-> "object", members |-> members]
Member(key, value) == [key |-> key, value |-> value]

\* JSON.parse: a number literal gives a number, a string literal a string,
\* an object the record of its members.
RECURSIVE JsonParse(_)
JsonParse(t) ==
    CASE t.json = "string" -> t.text
      [] t.json = "number" -> DigitsValue(t.text)
      [] t.json = "object" ->
            LET at(key) == CHOOSE k \in 1..Len(t.members) :
                              t.members[k].key = key
            IN  [key \in {t.members[k].key : k \in 1..Len(t.members)} |->
                    JsonParse(t.members[at(key)].value)]

\* base64Encode, and the decoding that inverts it.
Base64Encode(text) == [kind |-> "base64", text |-> text]
Base64Decode(header) == header.text

\* JSON.stringify(safe) for the safe copy encodePayment makes: the members in
\* the order of the spread, every authorization field as a string literal,
\* and no member for a signature that is undefined.
StringifyPayment(payment) ==
    LET auth == payment.payload.authorization
        authorization ==
            JsonObject(<<Member("from", JsonString(auth.from)),
                         Member("to", JsonString(auth.to)),
                         Member("value", JsonString(auth.value)),
                         Member("validAfter", JsonString(auth.validAfter)),
                         Member("validBefore", JsonString(auth.validBefore)),
                         Member("nonce", JsonString(auth.nonce))>>)
        signature ==
            IF payment.payload.signature = Undefined THEN <<>>
            ELSE <<Member("signature", JsonString(payment.payload.signature))>>
    IN  JsonObject(<<Member("x402Version", JsonNumber(payment.x402Version)),
                     Member("scheme", JsonString(payment.scheme)),
                     Member("network", JsonString(payment.network)),
                     Member("payload",
                            JsonObject(signature \o
                                <<Member("authorization", authorization)>>))>>)

\* encodePayment whose safe copy is built without the spread of the payload.
EncodePaymentAuthorizationOnly(payment) ==
    Base64Encode(StringifyPayment(
        [payment EXCEPT !.payload.signature = Undefined]))

\* encodePayment
EncodePayment(payment) == Base64Encode(StringifyPayment(payment))

\* What the receiver of the header reads: base64-decoded and JSON-parsed.
DecodePayment(header) == JsonParse(Base64Decode(header))

\* ----------------------------------------------------------------- state

\* The invocations of the wrapped fetch.
Invocations == {"c1", "c2"}

VARIABLES
    walletChain,      \* walletClient.chain of the wrapper
    maxValue,         \* maxValue of the wrapper
    pc,               \* where each invocation stands
    init,             \* the init each caller passed
    requests,         \* the fetchFn calls of each invocation, in order
    responses,        \* the responses fetchFn resolved with, in order
    bodyReads,        \* the responses whose json() was called, by position
    selected,         \* what selectPaymentRequirements returned
    unsignedPayment,  \* the unsignedPayment objects built
    signCalls,        \* the signTypedData calls made
    signReturns,      \* what the signing capability answered
    encoded,          \* the payloads handed to encodePayment
    outcome,          \* what the invocation's promise settled with
    aborted,          \* where the invocation stood when its AbortSignal fired
    rejections,       \* the errors fetchFn rejected with, in order
    env,              \* which of the Environments this run takes place in
    nonceDraws,       \* what createNonce returned to each invocation, in order
    workflow,         \* where each payWorkflow call stands, and its result
    stateFile,        \* the content of .openserv.json
    platform,         \* the agents, workflows and triggers on the platform
    prov              \* where each provision call stands, with its locals

\* The variables of provision().
provisionVars == <<stateFile, platform, prov>>

vars ==
    <<walletChain, maxValue, pc, init, requests, responses, bodyReads,
      selected, unsignedPayment, signCalls, signReturns, encoded, outcome,
      aborted, rejections, env, nonceDraws, workflow, provisionVars>>

Pending == [kind |-> "pending"]
Returned(response) == [kind |-> "response", response |-> response]
Thrown(error) == [kind |-> "error", error |-> error]

Str(s) == [kind |-> "string", value |-> s]

\* ----------------------------------------------------------- environment

Url == "https://api.example/webhooks/x402/trigger/abc123"

\* The two kinds of headers a RequestInit holds here: an object literal, whose
\* entries are its own properties, and a Headers instance, whose entries are
\* held inside it.
PlainObject(entries) == [class |-> "Object", entries |-> entries]
HeadersInstance(entries) == [class |-> "Headers", entries |-> entries]

\* { ...object }: the own enumerable properties; a Headers instance has none.
OwnProperties(object) ==
    IF object.class = "Object" THEN object.entries ELSE <<>>

\* The init a caller passes: none, the POST of PaymentsAPI.payWorkflow, that
\* POST with an AbortSignal, or that POST with its headers in a Headers
\* instance.
PostInit(signal) ==
    [method |-> Str("POST"), body |-> Str("{}"),
     headers |-> PlainObject([h \in {"Content-Type"} |-> Str("application/json")]),
     signal |-> signal]

PostInitWithHeaders ==
    [PostInit(Undefined) EXCEPT
        !.headers = HeadersInstance([h \in {"Content-Type"} |->
                                        Str("application/json")])]

CallerInits ==
    {Undefined, PostInit(Undefined), PostInit(Str("AbortSignal")),
     PostInitWithHeaders}

\* init?.signal is an AbortSignal.
HasSignal(callerInit) ==
    callerInit # Undefined /\ callerInit.signal # Undefined

\* The errors fetchFn rejects with.
\* signal.aborted is false.
NotAborted == ""

TransportErrors == {"fetch failed", "AbortError"}

WalletChains == {Chain(BaseChainId), Chain(BaseSepoliaChainId), Chain(1), Undefined}

MaxValues == {DefaultMaxValue, 10000}

Statuses == {200, PAYMENT_REQUIRED, 500}

\* Bodies of a 402 response: text that is no JSON, JSON null, an object
\* without accepts, an object with an accepts list.
NotJson == [kind |-> "text"]
JsonNull == [kind |-> "null"]
Challenge(hasAccepts, accepts) ==
    [kind |-> "object", x402Version |-> 1, hasAccepts |-> hasAccepts,
     accepts |-> accepts]

\* The JSON object { "ok": true } of a response that is no challenge.
OkBody == Challenge(FALSE, <<>>)

\* Challenges of x402Version 1 carry up to MaxAccepts offers, those of
\* x402Version 2 at most one.
ChallengeBodies ==
    {NotJson, JsonNull, OkBody}
        \cup {Challenge(TRUE, a) : a \in SeqsUpTo(Offers, MaxAccepts)}
        \cup {[Challenge(TRUE, a) EXCEPT !.x402Version = 2] :
                a \in SeqsUpTo(Offers, 1)}

\* The first offer of the table, alone in a challenge.
RepeatedChallenge ==
    Challenge(TRUE, <<Offer("exact", "base", Amount10000, "0xpayee", 60)>>)

\* Date.now() at the two reads of createPaymentHeader, in milliseconds.
ClockReads ==
    {<<t1, t2>> \in {1000999, 1001000} \X {1000999, 1001000} : t1 <= t2}

\* toHex(randomBytes(32))
Nonces == {"0x01", "0x02"}

\* The signature the capability produces over typed data.
SignatureOf(typedData) ==
    [kind |-> "signature", signer |-> typedData.account,
     domain |-> typedData.domain, message |-> typedData.message]

\* ------------------------------------------------------------------ init

\* payWorkflow before it is called.
NotCalled ==
    [pc |-> "idle", result |-> Pending, bodyReads |-> <<>>, lists |-> 0]

\* The parameters of payWorkflow: a trigger URL or a workflow id or neither,
\* and a private key or none (in the parameters or in WALLET_PRIVATE_KEY).
PayWorkflowParams ==
    [triggerUrl : {Str(Url), Undefined},
     workflowId : {[kind |-> "number"], Undefined},
     privateKey : {Str("0xkey"), Undefined}]

\* What triggers.list resolves with: no trigger, a trigger without x402
\* pricing, or an x402 trigger with its token.
TriggerLists ==
    {<<>>,
     <<[token |-> Str("abc123"), x402Pricing |-> Undefined]>>,
     <<[token |-> Str("abc123"), x402Pricing |-> Str("0.01")]>>}

\* The calls of provision().
Provisions == {"p1", "p2"}

\* readState() on a missing .openserv.json: { agents: {}, workflows: {} }
NoStateFile == [userApiKey |-> Undefined, agents |-> <<>>, workflows |-> <<>>]

\* A platform holding nothing: no agent, no trigger, nothing deleted.
EmptyPlatform == [agents |-> {}, triggers |-> {}, deleted |-> 0]

\* provision() before it is called: no config, the locals unset, no platform
\* call made.
NotProvisioning ==
    [pc |-> "idle", agentName |-> "", state |-> NoStateFile,
     agent |-> Undefined, workflowId |-> Undefined, triggerId |-> Undefined,
     calls |-> <<>>, error |-> Undefined, prior |-> Undefined,
     result |-> Pending]

\* One caller, every challenge body, init, clock read and nonce.
SingleCaller ==
    [callers |-> {"c1"}, bodies |-> ChallengeBodies, answers |-> {OkBody},
     inits |-> CallerInits, clocks |-> ClockReads, nonces |-> Nonces]

\* Two callers at once, on fewer answers: a body that is no JSON, an offer
\* on Base and one on Base Sepolia, and one reading of the clock.
TwoCallers ==
    [callers |-> Invocations,
     bodies |-> {NotJson,
                 Challenge(TRUE, <<Offer("exact", "base", Amount10000, "0xpayee", 60)>>),
                 Challenge(TRUE, <<Offer("exact", "base-sepolia", Amount100000,
                                         "0xpayee", 300)>>)},
     answers |-> {OkBody},
     inits |-> {Undefined, PostInit(Str("AbortSignal"))},
     clocks |-> {<<1000999, 1000999>>},
     nonces |-> Nonces]

\* One caller answered with challenges of at most one offer.
SingleOffers ==
    [callers |-> {"c1"},
     bodies |-> {NotJson, JsonNull, OkBody}
                  \cup {Challenge(TRUE, a) : a \in SeqsUpTo(Offers, 1)},
     answers |-> {OkBody},
     inits |-> CallerInits,
     clocks |-> ClockReads,
     nonces |-> Nonces]

\* The trigger URL answering payWorkflow: challenges of at most one offer,
\* and answers whose body is JSON or not.  The init is payWorkflow's own.
PaidTrigger ==
    [callers |-> {"c1"},
     bodies |-> {NotJson, OkBody}
                  \cup {Challenge(TRUE, a) : a \in SeqsUpTo(Offers, 1)},
     answers |-> {OkBody, NotJson},
     inits |-> {PostInit(Undefined)},
     clocks |-> {<<1000999, 1000999>>},
     nonces |-> Nonces]

\* The environments a run can take place in; env names one of them.
Environments ==
    [oneCaller |-> SingleCaller, twoCallers |-> TwoCallers,
     oneOffer |-> SingleOffers, paidTrigger |-> PaidTrigger]

\* The responses fetchFn can resolve its n-th call with.  A retry is answered
\* with fewer distinct 402 bodies than the original request.
Responses(n) ==
    {[seq |-> n, status |-> PAYMENT_REQUIRED, body |-> b] :
        b \in IF n = 1 THEN Environments[env].bodies ELSE {NotJson, RepeatedChallenge}}
        \cup {[seq |-> n, status |-> st, body |-> b] :
                st \in Statuses \ {PAYMENT_REQUIRED},
                b \in Environments[env].answers}

\* The state once wrapFetchWithPayment has returned the wrapped fetch.
Constructed(chains, maxValues, environment) ==
    /\ walletChain \in chains
    /\ maxValue \in maxValues
    /\ env = environment
    /\ aborted = [i \in Invocations |-> NotAborted]
    /\ rejections = [i \in Invocations |-> <<>>]
    /\ pc = [i \in Invocations |-> "initial"]
    /\ init = [i \in Invocations |-> Undefined]
    /\ requests = [i \in Invocations |-> <<>>]
    /\ responses = [i \in Invocations |-> <<>>]
    /\ bodyReads = [i \in Invocations |-> <<>>]
    /\ selected = [i \in Invocations |-> <<>>]
    /\ unsignedPayment = [i \in Invocations |-> <<>>]
    /\ signCalls = [i \in Invocations |-> <<>>]
    /\ signReturns = [i \in Invocations |-> <<>>]
    /\ encoded = [i \in Invocations |-> <<>>]
    /\ outcome = [i \in Invocations |-> Pending]
    /\ nonceDraws = [i \in Invocations |-> <<>>]
    /\ workflow = [i \in Invocations |-> NotCalled]
    /\ stateFile = NoStateFile
    /\ platform = EmptyPlatform
    /\ prov = [p \in Provisions |-> NotProvisioning]

Init == Constructed(WalletChains, MaxValues, "oneCaller")

\* Two invocations of one wrapped fetch, its wallet on Base.
InitConcurrent == Constructed({Chain(BaseChainId)}, {DefaultMaxValue}, "twoCallers")

\* --------------------------------------------------------------- actions

\* The invocation's promise settles: it returns or throws.
Settle(i, result) ==
    /\ pc' = [pc EXCEPT ![i] = "done"]
    /\ outcome' = [outcome EXCEPT ![i] = result]

\* A caller invokes the wrapped fetch: fetchFn(input, init).
Call(i) ==
    /\ pc[i] = "initial"
    /\ i \in Environments[env].callers
    /\ \E callerInit \in Environments[env].inits :
        /\ init' = [init EXCEPT ![i] = callerInit]
        /\ requests' = [requests EXCEPT
                          ![i] = <<[input |-> Url, init |-> callerInit]>>]
    /\ pc' = [pc EXCEPT ![i] = "sent"]
    /\ UNCHANGED <<provisionVars, workflow, nonceDraws, env, aborted, rejections, walletChain, maxValue, responses, bodyReads, selected,
                   unsignedPayment, signCalls, signReturns, encoded, outcome>>

\* The test !response.ok in place of the status test.
IsNotOk(response) == response.status >= 400

\* response.status !== 402
IsChallenge(response) == response.status = PAYMENT_REQUIRED

\* The original request resolves: a response other than 402 is returned, a
\* 402 has its body read.
FetchResolve(i) ==
    /\ pc[i] = "sent"
    /\ \E response \in Responses(1) :
        /\ responses' = [responses EXCEPT ![i] = Append(@, response)]
        /\ IF ~IsChallenge(response)
           THEN /\ Settle(i, Returned(response))
                /\ UNCHANGED bodyReads
           ELSE /\ pc' = [pc EXCEPT ![i] = "parsing"]
                /\ bodyReads' = [bodyReads EXCEPT ![i] = Append(@, response.seq)]
                /\ UNCHANGED outcome
    /\ UNCHANGED <<provisionVars, workflow, nonceDraws, env, aborted, rejections, walletChain, maxValue, init, requests, selected,
                   unsignedPayment, signCalls, signReturns, encoded>>

\* A rejected original request sent again.
FetchRejectResends(i) ==
    /\ pc[i] = "sent"
    /\ requests' = [requests EXCEPT ![i] = Append(@, requests[i][1])]
    /\ UNCHANGED <<provisionVars, workflow, nonceDraws, env, aborted, rejections, walletChain, maxValue, pc, init, responses, bodyReads,
                   selected, unsignedPayment, signCalls, signReturns, encoded,
                   outcome>>

\* The original request rejects: the invocation rejects with the same error.
FetchReject(i) ==
    /\ pc[i] = "sent"
    /\ \E error \in TransportErrors :
        /\ rejections' = [rejections EXCEPT ![i] = Append(@, error)]
        /\ Settle(i, Thrown(error))
    /\ UNCHANGED <<provisionVars, workflow, nonceDraws, env, aborted, walletChain, maxValue, init, requests, responses, bodyReads,
                   selected, unsignedPayment, signCalls, signReturns, encoded>>

Last(seq) == seq[Len(seq)]

\* A body that is no JSON leaves the promise of the wrapped fetch unsettled.
JsonRejectNeverSettles(i) ==
    /\ pc[i] = "parsing"
    /\ responses[i][Last(bodyReads[i])].body.kind = "text"
    /\ pc' = [pc EXCEPT ![i] = "hung"]
    /\ UNCHANGED <<provisionVars, workflow, nonceDraws, env, aborted, rejections, walletChain, maxValue, init, requests, responses, bodyReads,
                   selected, unsignedPayment, signCalls, signReturns, encoded, outcome>>

\* response.json() rejects: the body is no JSON text.
JsonReject(i) ==
    /\ pc[i] = "parsing"
    /\ responses[i][Last(bodyReads[i])].body.kind = "text"
    /\ Settle(i, Thrown("SyntaxError"))
    /\ UNCHANGED <<provisionVars, workflow, nonceDraws, env, aborted, rejections, walletChain, maxValue, init, requests, responses, bodyReads,
                   selected, unsignedPayment, signCalls, signReturns, encoded>>

NoError == ""

\* const name = value; rest: the value is computed once and rest(name) uses it.
Const(value, rest(_)) == CHOOSE result \in {rest(name) : name \in {value}} : TRUE

\* The wrapped fetch with the ceiling tested after createPaymentHeader: the
\* payload is built and handed to the signing capability, whatever its amount.
NegotiateCeilingLast(chain, max, body, now1, now2, nonce) ==
    LET none == [error |-> NoError, selected |-> <<>>, nonces |-> <<>>,
                 unsigned |-> <<>>, call |-> <<>>]
    IN
    IF body.kind # "object" \/ ~body.hasAccepts
    THEN [none EXCEPT !.error = "TypeError"]
    ELSE
    Const(SelectPaymentRequirements(body.accepts, NetworkOf(chain)),
      LAMBDA sel :
        LET chosen == [none EXCEPT !.selected = <<sel>>]
        IN
        IF sel = Undefined THEN [chosen EXCEPT !.error = "TypeError"]
        ELSE
        Const(UnsignedPayment(PayerAddress, body.x402Version, sel,
                              now1, now2, nonce),
          LAMBDA unsigned :
            LET auth == unsigned.payload.authorization
                built == [chosen EXCEPT !.nonces = <<nonce>>,
                                        !.unsigned = <<unsigned>>]
            IN  Const(SignAuthorizationThrows(chain, auth, sel),
                  LAMBDA thrown :
                    IF thrown # NoError THEN [built EXCEPT !.error = thrown]
                    ELSE [built EXCEPT
                            !.call = <<TypedData(chain, auth, sel)>>])))

\* Lines 296-312 of the wrapped fetch with createPaymentHeader and
\* signAuthorization up to the await of signTypedData: what was selected, what
\* was built, the signTypedData call made, and the error thrown on the way.
Negotiate(chain, max, body, now1, now2, nonce) ==
    LET none == [error |-> NoError, selected |-> <<>>, nonces |-> <<>>,
                 unsigned |-> <<>>, call |-> <<>>]
    IN
    IF body.kind # "object" \/ ~body.hasAccepts
    THEN [none EXCEPT !.error = "TypeError"]
    ELSE
    Const(SelectPaymentRequirements(body.accepts, NetworkOf(chain)),
      LAMBDA sel :
        LET chosen == [none EXCEPT !.selected = <<sel>>]
        IN
        IF sel = Undefined THEN [chosen EXCEPT !.error = "TypeError"]
        ELSE IF ~BigIntParses(sel.maxAmountRequired)
        THEN [chosen EXCEPT !.error = "SyntaxError"]
        ELSE IF ExceedsMaxValue(sel.maxAmountRequired, max)
        THEN [chosen EXCEPT !.error = "Payment amount exceeds maximum allowed"]
        ELSE
        Const(UnsignedPayment(PayerAddress, body.x402Version, sel,
                              now1, now2, nonce),
          LAMBDA unsigned :
            LET auth == unsigned.payload.authorization
                built == [chosen EXCEPT !.nonces = <<nonce>>,
                                        !.unsigned = <<unsigned>>]
            IN  Const(SignAuthorizationThrows(chain, auth, sel),
                  LAMBDA thrown :
                    IF thrown # NoError THEN [built EXCEPT !.error = thrown]
                    ELSE [built EXCEPT
                            !.call = <<TypedData(chain, auth, sel)>>])))

\* The nonce kept by the wrapped fetch once drawn: a later authorization is
\* built on the kept nonce, without a createNonce call of its own.
JsonResolveKeepsNonce(i) ==
    /\ pc[i] = "parsing"
    /\ responses[i][Last(bodyReads[i])].body.kind # "text"
    /\ \E clock \in Environments[env].clocks, fresh \in Environments[env].nonces :
        LET kept == {j \in Invocations : nonceDraws[j] # <<>>}
            nonce == IF kept = {} THEN fresh
                     ELSE nonceDraws[CHOOSE j \in kept : TRUE][1]
            body == responses[i][Last(bodyReads[i])].body
            r == Negotiate(walletChain, maxValue, body, clock[1], clock[2], nonce)
        IN  /\ selected' = [selected EXCEPT ![i] = @ \o r.selected]
            /\ unsignedPayment' = [unsignedPayment EXCEPT ![i] = @ \o r.unsigned]
            /\ nonceDraws' = [nonceDraws EXCEPT
                                ![i] = IF kept = {} THEN @ \o r.nonces ELSE @]
            /\ signCalls' = [signCalls EXCEPT ![i] = @ \o r.call]
            /\ IF r.error # NoError
               THEN Settle(i, Thrown(r.error))
               ELSE /\ pc' = [pc EXCEPT ![i] = "signing"]
                    /\ UNCHANGED outcome
    /\ UNCHANGED <<provisionVars, workflow, env, aborted, rejections, walletChain, maxValue, init, requests, responses, bodyReads,
                   signReturns, encoded>>

\* response.json() resolves: select, check the ceiling, build the
\* authorization and hand it to the signing capability.
JsonResolve(i) ==
    /\ pc[i] = "parsing"
    /\ responses[i][Last(bodyReads[i])].body.kind # "text"
    /\ \E clock \in Environments[env].clocks, nonce \in Environments[env].nonces :
        LET body == responses[i][Last(bodyReads[i])].body
            r == Negotiate(walletChain, maxValue, body, clock[1], clock[2], nonce)
        IN  /\ selected' = [selected EXCEPT ![i] = @ \o r.selected]
            /\ unsignedPayment' = [unsignedPayment EXCEPT ![i] = @ \o r.unsigned]
            /\ nonceDraws' = [nonceDraws EXCEPT ![i] = @ \o r.nonces]
            /\ signCalls' = [signCalls EXCEPT ![i] = @ \o r.call]
            /\ IF r.error # NoError
               THEN Settle(i, Thrown(r.error))
               ELSE /\ pc' = [pc EXCEPT ![i] = "signing"]
                    /\ UNCHANGED outcome
    /\ UNCHANGED <<provisionVars, workflow, env, aborted, rejections, walletChain, maxValue, init, requests, responses, bodyReads,
                   signReturns, encoded>>

\* { ...init, headers: { ...(init?.headers || {}), "X-PAYMENT": paymentHeader,
\*   "Access-Control-Expose-Headers": "X-PAYMENT-RESPONSE" } }
RetryInit(callerInit, paymentHeader) ==
    LET own == IF callerInit = Undefined THEN <<>>
               ELSE OwnProperties(callerInit.headers)
        added == {"X-PAYMENT", "Access-Control-Expose-Headers"}
    IN  [method |-> IF callerInit = Undefined THEN Undefined ELSE callerInit.method,
         body |-> IF callerInit = Undefined THEN Undefined ELSE callerInit.body,
         signal |-> IF callerInit = Undefined THEN Undefined ELSE callerInit.signal,
         headers |->
            PlainObject([h \in DOMAIN own \cup added |->
                IF h = "X-PAYMENT" THEN paymentHeader
                ELSE IF h = "Access-Control-Expose-Headers"
                     THEN Str("X-PAYMENT-RESPONSE")
                     ELSE own[h]])]

\* The payload to sign kept in one slot of the wrapped fetch, which every
\* invocation writes: signing resolves onto whatever invocation wrote last.
SignResolveSharedSlot(i) ==
    /\ pc[i] = "signing"
    /\ \E j \in Invocations :
        /\ unsignedPayment[j] # <<>>
        /\ LET signature == SignatureOf(Last(signCalls[j]))
               payment == WithSignature(Last(unsignedPayment[j]), signature)
           IN  /\ signReturns' = [signReturns EXCEPT ![i] = Append(@, signature)]
               /\ encoded' = [encoded EXCEPT ![i] = Append(@, payment)]
               /\ requests' = [requests EXCEPT ![i] =
                       Append(@, [input |-> Url,
                                  init |-> RetryInit(init[i], EncodePayment(payment))])]
    /\ pc' = [pc EXCEPT ![i] = "retrying"]
    /\ UNCHANGED <<provisionVars, workflow, nonceDraws, env, aborted, rejections, walletChain, maxValue, init, responses, bodyReads, selected,
                   unsignedPayment, signCalls, outcome>>

\* signTypedData resolves: encode the signed payload and retry through the
\* raw fetchFn.
SignResolve(i) ==
    /\ pc[i] = "signing"
    /\ LET signature == SignatureOf(Last(signCalls[i]))
           payment == WithSignature(Last(unsignedPayment[i]), signature)
       IN  /\ signReturns' = [signReturns EXCEPT ![i] = Append(@, signature)]
           /\ encoded' = [encoded EXCEPT ![i] = Append(@, payment)]
           /\ requests' = [requests EXCEPT ![i] =
                   Append(@, [input |-> Url,
                              init |-> RetryInit(init[i], EncodePayment(payment))])]
    /\ pc' = [pc EXCEPT ![i] = "retrying"]
    /\ UNCHANGED <<provisionVars, workflow, nonceDraws, env, aborted, rejections, walletChain, maxValue, init, responses, bodyReads, selected,
                   unsignedPayment, signCalls, outcome>>

\* A rejected signature answered by retrying with the unsigned payload.
SignRejectSendsUnsigned(i) ==
    /\ pc[i] = "signing"
    /\ LET payment == Last(unsignedPayment[i])
       IN  /\ signReturns' = [signReturns EXCEPT
                                ![i] = Append(@, [kind |-> "rejected"])]
           /\ encoded' = [encoded EXCEPT ![i] = Append(@, payment)]
           /\ requests' = [requests EXCEPT ![i] =
                   Append(@, [input |-> Url,
                              init |-> RetryInit(init[i], EncodePayment(payment))])]
    /\ pc' = [pc EXCEPT ![i] = "retrying"]
    /\ UNCHANGED <<provisionVars, workflow, nonceDraws, env, aborted, rejections, walletChain, maxValue, init, responses, bodyReads, selected,
                   unsignedPayment, signCalls, outcome>>

\* signTypedData rejects: the invocation rejects with the signer's error.
SignReject(i) ==
    /\ pc[i] = "signing"
    /\ signReturns' = [signReturns EXCEPT ![i] = Append(@, [kind |-> "rejected"])]
    /\ Settle(i, Thrown("signer rejected"))
    /\ UNCHANGED <<provisionVars, workflow, nonceDraws, env, aborted, rejections, walletChain, maxValue, init, requests, responses, bodyReads,
                   selected, unsignedPayment, signCalls, encoded>>

\* The retry sent through the wrapped fetch: a 402 answer is handled again.
RetryThroughWrapper(i) ==
    /\ pc[i] = "retrying"
    /\ \E response \in Responses(Len(requests[i])) :
        /\ responses' = [responses EXCEPT ![i] = Append(@, response)]
        /\ IF ~IsChallenge(response)
           THEN /\ Settle(i, Returned(response))
                /\ UNCHANGED bodyReads
           ELSE /\ pc' = [pc EXCEPT ![i] = "parsing"]
                /\ bodyReads' = [bodyReads EXCEPT ![i] = Append(@, response.seq)]
                /\ UNCHANGED outcome
    /\ UNCHANGED <<provisionVars, workflow, nonceDraws, env, aborted, rejections, walletChain, maxValue, init, requests, selected,
                   unsignedPayment, signCalls, signReturns, encoded>>

\* The retry answered by the original response when the retry is not ok.
RetryKeepsOriginal(i) ==
    /\ pc[i] = "retrying"
    /\ \E response \in Responses(Len(requests[i])) :
        /\ responses' = [responses EXCEPT ![i] = Append(@, response)]
        /\ Settle(i, Returned(IF response.status >= 400 THEN responses[i][1]
                              ELSE response))
    /\ UNCHANGED <<provisionVars, workflow, nonceDraws, env, aborted, rejections, walletChain, maxValue, init, requests, bodyReads, selected,
                   unsignedPayment, signCalls, signReturns, encoded>>

\* The retry resolves: its response is the invocation's result.
RetryResolve(i) ==
    /\ pc[i] = "retrying"
    /\ \E response \in Responses(Len(requests[i])) :
        /\ responses' = [responses EXCEPT ![i] = Append(@, response)]
        /\ Settle(i, Returned(response))
    /\ UNCHANGED <<provisionVars, workflow, nonceDraws, env, aborted, rejections, walletChain, maxValue, init, requests, bodyReads, selected,
                   unsignedPayment, signCalls, signReturns, encoded>>

\* A rejected retry answered with the response of the original request.
RetryRejectSwallowed(i) ==
    /\ pc[i] = "retrying"
    /\ \E error \in TransportErrors :
        /\ rejections' = [rejections EXCEPT ![i] = Append(@, error)]
        /\ Settle(i, Returned(responses[i][1]))
    /\ UNCHANGED <<provisionVars, workflow, nonceDraws, env, aborted, walletChain, maxValue, init, requests, responses, bodyReads,
                   selected, unsignedPayment, signCalls, signReturns, encoded>>

\* The retry rejects: the invocation rejects with the same error.
RetryReject(i) ==
    /\ pc[i] = "retrying"
    /\ \E error \in TransportErrors :
        /\ rejections' = [rejections EXCEPT ![i] = Append(@, error)]
        /\ Settle(i, Thrown(error))
    /\ UNCHANGED <<provisionVars, workflow, nonceDraws, env, aborted, walletChain, maxValue, init, requests, responses, bodyReads,
                   selected, unsignedPayment, signCalls, signReturns, encoded>>

\* The caller's AbortSignal fires while the invocation is pending.  The
\* wrapped fetch never reads the signal: it only hands it to fetchFn in init.
Abort(i) ==
    /\ pc[i] \in {"sent", "parsing", "signing", "retrying"}
    /\ HasSignal(init[i])
    /\ aborted[i] = NotAborted
    /\ aborted' = [aborted EXCEPT ![i] = pc[i]]
    /\ UNCHANGED <<provisionVars, workflow, nonceDraws, env, rejections, walletChain, maxValue, pc, init, requests,
                   responses, bodyReads, selected, unsignedPayment, signCalls,
                   signReturns, encoded, outcome>>

Next ==
    \E i \in Invocations :
        \/ Call(i)
        \/ Abort(i)
        \/ FetchResolve(i)
        \/ FetchReject(i)
        \/ JsonReject(i)
        \/ JsonResolve(i)
        \/ SignResolve(i)
        \/ SignReject(i)
        \/ RetryResolve(i)
        \/ RetryReject(i)

Spec == Init /\ [][Next]_vars

\* ------------------------------------------------------------ payWorkflow

\* response.ok with a status of 402 counted as ok.
OkOrChallenge(response) ==
    (response.status >= 200 /\ response.status <= 299)
        \/ response.status = PAYMENT_REQUIRED

\* response.ok
Ok(response) == response.status >= 200 /\ response.status <= 299

\* new Error(`Workflow execution failed: ${response.status} ${JSON.stringify(errorData)}`)
ExecutionFailed(status, errorData) ==
    [kind |-> "error", error |-> "Workflow execution failed",
     status |-> status, data |-> errorData]

\* The X402PaymentResult payWorkflow returns.
PaymentResult(responseData) ==
    [kind |-> "result", success |-> TRUE, txHash |-> "", price |-> "",
     response |-> responseData, network |-> "base", chainId |-> BaseChainId]

\* payWorkflow's promise settles.
PayWorkflowSettle(i, result) ==
    workflow' = [workflow EXCEPT ![i].pc = "done", ![i].result = result]

\* payWorkflow from the private key on: without a key it throws; with one it
\* wraps fetch and calls the wrapped fetch, which sends the request.
PayWithKey(i, privateKey) ==
    IF privateKey = Undefined
    THEN /\ PayWorkflowSettle(i, Thrown("Private key is required"))
         /\ UNCHANGED <<pc, init, requests>>
    ELSE /\ workflow' = [workflow EXCEPT ![i].pc = "fetching"]
         /\ \E callerInit \in Environments[env].inits :
              /\ init' = [init EXCEPT ![i] = callerInit]
              /\ requests' = [requests EXCEPT
                                ![i] = <<[input |-> Url, init |-> callerInit]>>]
         /\ pc' = [pc EXCEPT ![i] = "sent"]

\* payWorkflow(params) up to its first await: the trigger URL is the one
\* given, or triggers.list is asked for the workflow's triggers.
PayWorkflow(i) ==
    /\ workflow[i].pc = "idle"
    /\ pc[i] = "initial"
    /\ i \in Environments[env].callers
    /\ \E params \in PayWorkflowParams :
        IF params.triggerUrl # Undefined
        THEN PayWithKey(i, params.privateKey)
        ELSE IF params.workflowId = Undefined
        THEN /\ PayWorkflowSettle(i, Thrown("Either workflowId or triggerUrl is required."))
             /\ UNCHANGED <<pc, init, requests>>
        ELSE /\ workflow' = [workflow EXCEPT
                                ![i].pc = IF params.privateKey = Undefined
                                          THEN "listingNoKey" ELSE "listing",
                                ![i].lists = 1]
             /\ UNCHANGED <<pc, init, requests>>
    /\ UNCHANGED <<provisionVars, nonceDraws, env, aborted, rejections, walletChain, maxValue, responses, bodyReads, selected,
                   unsignedPayment, signCalls, signReturns, encoded, outcome>>

\* triggers.list resolves: the first x402 trigger with a token gives the URL.
TriggersListResolve(i) ==
    /\ workflow[i].pc \in {"listing", "listingNoKey"}
    /\ \E triggers \in TriggerLists :
        LET found == First(Filter(triggers,
                         {t \in Range(triggers) :
                            t.token # Undefined /\ t.x402Pricing # Undefined}))
        IN  IF found = Undefined
            THEN /\ PayWorkflowSettle(i, Thrown("No x402 trigger not found in workflow"))
                 /\ UNCHANGED <<pc, init, requests>>
            ELSE PayWithKey(i, IF workflow[i].pc = "listing"
                               THEN Str("0xkey") ELSE Undefined)
    /\ UNCHANGED <<provisionVars, nonceDraws, env, aborted, rejections, walletChain, maxValue, responses, bodyReads, selected,
                   unsignedPayment, signCalls, signReturns, encoded, outcome>>

\* triggers.list rejects: payWorkflow rejects with the same error.
TriggersListReject(i) ==
    /\ workflow[i].pc \in {"listing", "listingNoKey"}
    /\ PayWorkflowSettle(i, Thrown("Request failed with status code 500"))
    /\ UNCHANGED <<provisionVars, nonceDraws, env, aborted, rejections, walletChain, maxValue, pc, init, requests, responses, bodyReads,
                   selected, unsignedPayment, signCalls, signReturns, encoded, outcome>>

\* The wrapped fetch settles: its error is payWorkflow's; the body of its
\* response is read, as error data when the response is not ok.
PayWorkflowFetched(i) ==
    /\ workflow[i].pc = "fetching"
    /\ pc[i] = "done"
    /\ IF outcome[i].kind = "error"
       THEN PayWorkflowSettle(i, outcome[i])
       ELSE LET response == outcome[i].response
            IN  workflow' = [workflow EXCEPT
                    ![i].pc = IF Ok(response) THEN "readingData"
                              ELSE "readingError",
                    ![i].bodyReads = Append(@, response.seq)]
    /\ UNCHANGED <<provisionVars, nonceDraws, env, aborted, rejections, walletChain, maxValue, pc, init, requests, responses, bodyReads,
                   selected, unsignedPayment, signCalls, signReturns, encoded, outcome>>

\* await response.json().catch(() => ({})) settles, and payWorkflow throws
\* with the status and the error data, {} for a body that is no JSON.
ErrorDataRead(i) ==
    /\ workflow[i].pc = "readingError"
    /\ LET response == outcome[i].response
           errorData == IF response.body.kind = "text" THEN PlainObject(<<>>)
                        ELSE response.body
       IN  PayWorkflowSettle(i, ExecutionFailed(response.status, errorData))
    /\ UNCHANGED <<provisionVars, nonceDraws, env, aborted, rejections, walletChain, maxValue, pc, init, requests, responses, bodyReads,
                   selected, unsignedPayment, signCalls, signReturns, encoded, outcome>>

\* await response.json() settles on an ok response: the parsed body is
\* returned in the result, and a body that is no JSON rejects.
ResponseDataRead(i) ==
    /\ workflow[i].pc = "readingData"
    /\ LET response == outcome[i].response
       IN  IF response.body.kind = "text"
           THEN PayWorkflowSettle(i, Thrown("SyntaxError"))
           ELSE PayWorkflowSettle(i, PaymentResult(response.body))
    /\ UNCHANGED <<provisionVars, nonceDraws, env, aborted, rejections, walletChain, maxValue, pc, init, requests, responses, bodyReads,
                   selected, unsignedPayment, signCalls, signReturns, encoded, outcome>>

\* payWorkflow on the wrapped fetch: the wrapped fetch is called by
\* payWorkflow only, with no AbortSignal.
NextPayWorkflow ==
    \E i \in Invocations :
        \/ PayWorkflow(i)
        \/ TriggersListResolve(i)
        \/ TriggersListReject(i)
        \/ FetchResolve(i)
        \/ FetchReject(i)
        \/ JsonReject(i)
        \/ JsonResolve(i)
        \/ SignResolve(i)
        \/ SignReject(i)
        \/ RetryResolve(i)
        \/ RetryReject(i)
        \/ PayWorkflowFetched(i)
        \/ ErrorDataRead(i)
        \/ ResponseDataRead(i)

\* createSigner("base", privateKey): the wallet is on Base; the ceiling is
\* the default one.
InitPayWorkflow ==
    Constructed({Chain(BaseChainId)}, {DefaultMaxValue}, "paidTrigger")

SpecPayWorkflow == InitPayWorkflow /\ [][NextPayWorkflow]_vars

SpecConcurrent == InitConcurrent /\ [][Next]_vars

\* -------------------------------------------------------------- provision

\* The variables of the wrapped fetch and of payWorkflow.
fetchVars ==
    <<walletChain, maxValue, pc, init, requests, responses, bodyReads,
      selected, unsignedPayment, signCalls, signReturns, encoded, outcome,
      aborted, rejections, env, nonceDraws, workflow>>

\* config.agent.name; config.workflow.name is left out, so "default".
AgentNames == {"my-agent", "other-agent"}
WorkflowName == "default"

\* DEFAULT_AGENT_ENDPOINT
DefaultAgentEndpoint == "https://agents-proxy.openserv.ai"

\* The errors a platform call rejects with: an HTTP error with its status,
\* or an error without a response.
NotFound == [response |-> [status |-> 404]]
ServerError == [response |-> [status |-> 500]]
NetworkError == [response |-> Undefined]

\* What a call about a resource rejects with: 404 once the resource is gone.
Failures(present) ==
    IF present THEN {ServerError, NetworkError}
    ELSE {NotFound, ServerError, NetworkError}

\* Every error that carries a response taken for "not found".
IsResponseError(error) == error.response # Undefined

\* isNotFoundError
IsNotFoundError(error) ==
    error.response # Undefined /\ error.response.status = 404

\* The id the platform gives a resource it creates: ids differ from one
\* resource to the other, and a call of provision creates at most one
\* resource of each kind.
NewId(p, kind) == [kind |-> kind, createdFor |-> p]

\* What the platform gives out with an id: the agent's API key, the auth
\* token generated for it, the trigger's token.
ApiKeyOf(id) == [kind |-> "apiKey", of |-> id]
AuthTokenOf(id) == [kind |-> "authToken", of |-> id]
TokenOf(id) == [kind |-> "token", of |-> id]

\* The entries of .openserv.json.
AgentState(id) ==
    [id |-> id, apiKey |-> ApiKeyOf(id), authToken |-> AuthTokenOf(id),
     endpointUrl |-> DefaultAgentEndpoint]
WorkflowState(workflowId, triggerId) ==
    [workspaceId |-> workflowId, triggerId |-> triggerId,
     triggerToken |-> TokenOf(triggerId)]

\* A state whose agents never hold an entry for the name.
NoAgentRecorded(state, name) == Undefined

\* state.agents[name]
AgentOf(state, name) ==
    IF name \in DOMAIN state.agents THEN state.agents[name] ELSE Undefined

\* state.workflows[agentName][workflowName], on a state whose
\* workflows[agentName] has been initialized.
WorkflowOf(state, agentName) ==
    IF agentName \in DOMAIN state.workflows
       /\ WorkflowName \in DOMAIN state.workflows[agentName]
    THEN state.workflows[agentName][WorkflowName] ELSE Undefined

\* obj[key] = value on a copy of obj.
Put(obj, key, value) == [k \in DOMAIN obj \cup {key} |->
                            IF k = key THEN value ELSE obj[k]]

\* delete obj[key]
Delete(obj, key) == [k \in DOMAIN obj \ {key} |-> obj[k]]

\* if (!state.workflows[agentName]) state.workflows[agentName] = {}
WithWorkflowsOf(state, agentName) ==
    IF agentName \in DOMAIN state.workflows THEN state
    ELSE [state EXCEPT !.workflows = Put(@, agentName, <<>>)]

\* The ProvisionResult, without the URLs built from its ids.
ProvisionResult(agent, workflowId, triggerId) ==
    [kind |-> "result", agentId |-> agent.id, apiKey |-> agent.apiKey,
     authToken |-> agent.authToken, workflowId |-> workflowId,
     triggerId |-> triggerId, triggerToken |-> TokenOf(triggerId)]

\* A platform call is issued and awaited.
Await(call, locals) ==
    [locals EXCEPT !.pc = call, !.calls = Append(@, call)]

\* provision() rejects.
Reject(locals, error) == [locals EXCEPT !.pc = "done", !.result = Thrown(error)]

\* provision(config) up to the await of getOrCreateWallet().  prior is the
\* result an earlier provision of the same agent name has returned.
Provision(p) ==
    /\ prov[p].pc = "idle"
    /\ \E name \in AgentNames :
        LET earlier == {q \in Provisions :
                          /\ prov[q].result.kind = "result"
                          /\ prov[q].agentName = name}
        IN  prov' = [prov EXCEPT ![p] =
                [@ EXCEPT !.pc = "getOrCreateWallet",
                          !.agentName = name,
                          !.prior = IF earlier = {} THEN Undefined
                                    ELSE prov[CHOOSE q \in earlier : TRUE].result]]
    /\ UNCHANGED <<fetchVars, stateFile, platform>>

\* createAuthenticatedClient up to its first await: the state is read, and a
\* saved user API key is tried with agents.list.
CreateAuthenticatedClient(p) ==
    /\ prov[p].pc = "getOrCreateWallet"
    /\ prov' = [prov EXCEPT ![p] =
            Await(IF stateFile.userApiKey # Undefined THEN "agents.list"
                  ELSE "authenticate",
                  [@ EXCEPT !.state = stateFile])]
    /\ UNCHANGED <<fetchVars, stateFile, platform>>

\* agents.list resolves: the saved key works.
AgentsListResolve(p) ==
    /\ prov[p].pc = "agents.list"
    /\ prov' = [prov EXCEPT ![p].pc = "provisionAgent"]
    /\ UNCHANGED <<fetchVars, stateFile, platform>>

\* agents.list rejects: authenticate with the wallet.
AgentsListReject(p) ==
    /\ prov[p].pc = "agents.list"
    /\ prov' = [prov EXCEPT ![p] = Await("authenticate", @)]
    /\ UNCHANGED <<fetchVars, stateFile, platform>>

\* authenticate resolves: writeState({ ...state, userApiKey: apiKey }), with
\* the state read before the awaits.
AuthenticateResolve(p) ==
    /\ prov[p].pc = "authenticate"
    /\ stateFile' = [prov[p].state EXCEPT !.userApiKey = Str("user-api-key")]
    /\ prov' = [prov EXCEPT ![p].pc = "provisionAgent"]
    /\ UNCHANGED <<fetchVars, platform>>

\* provisionAgent up to its first await: an agent recorded in the state is
\* fetched, to be updated; without one an agent is created.
ProvisionAgent(p) ==
    /\ prov[p].pc = "provisionAgent"
    /\ LET existingAgent == AgentOf(stateFile, prov[p].agentName)
       IN  prov' = [prov EXCEPT ![p] =
               Await(IF existingAgent # Undefined THEN "agents.get"
                     ELSE "agents.create",
                     [@ EXCEPT !.state = stateFile, !.agent = existingAgent])]
    /\ UNCHANGED <<fetchVars, stateFile, platform>>

\* agents.get resolves: the agent is updated.
AgentsGetResolve(p) ==
    /\ prov[p].pc = "agents.get"
    /\ prov[p].agent.id \in platform.agents
    /\ prov' = [prov EXCEPT ![p] = Await("agents.update", @)]
    /\ UNCHANGED <<fetchVars, stateFile, platform>>

\* agents.update resolves: the entry is stored into a state read afresh, and
\* provisionAgent returns the recorded id, key and token.
AgentsUpdateResolve(p) ==
    /\ prov[p].pc = "agents.update"
    /\ prov[p].agent.id \in platform.agents
    /\ stateFile' = [stateFile EXCEPT
            !.agents = Put(@, prov[p].agentName,
                           [prov[p].agent EXCEPT
                               !.endpointUrl = DefaultAgentEndpoint])]
    /\ prov' = [prov EXCEPT ![p].pc = "provisionWorkflow"]
    /\ UNCHANGED <<fetchVars, platform>>

\* agents.get or agents.update rejects: on a 404 the entry is deleted from
\* the state read at the start, that state is written and an agent is
\* created; any other error is thrown as "Failed to update agent".
AgentsUpdateReject(p) ==
    /\ prov[p].pc \in {"agents.get", "agents.update"}
    /\ \E error \in Failures(prov[p].agent.id \in platform.agents) :
        IF IsNotFoundError(error)
        THEN LET state == [prov[p].state EXCEPT
                              !.agents = Delete(@, prov[p].agentName)]
             IN  /\ stateFile' = state
                 /\ prov' = [prov EXCEPT ![p] =
                        Await("agents.create",
                              [@ EXCEPT !.state = state, !.error = error])]
        ELSE /\ prov' = [prov EXCEPT ![p] =
                    Reject([@ EXCEPT !.error = error], "Failed to update agent")]
             /\ UNCHANGED stateFile
    /\ UNCHANGED <<fetchVars, platform>>

\* agents.create resolves with a new agent; its API key is asked for.
AgentsCreateResolve(p) ==
    /\ prov[p].pc = "agents.create"
    /\ LET id == NewId(p, "agent")
       IN  /\ platform' = [platform EXCEPT !.agents = @ \cup {id}]
           /\ prov' = [prov EXCEPT ![p] =
                  Await("agents.getApiKey", [@ EXCEPT !.agent = AgentState(id)])]
    /\ UNCHANGED <<fetchVars, stateFile>>

\* The calls that follow one another with nothing in between.
Following(call) ==
    CASE call = "agents.getApiKey" -> "agents.generateAuthToken"
      [] call = "agents.generateAuthToken" -> "agents.saveAuthToken"
      [] call = "workflows.create" -> "integrations.getOrCreateConnection"
      [] call = "integrations.getOrCreateConnection" -> "triggers.create"
      [] call = "tasks.create" -> "put workflow"
      [] call = "put workflow" -> "triggers.activate"
      [] call = "triggers.activate" -> "workflows.setRunning"

\* getApiKey, generateAuthToken, getOrCreateConnection, tasks.create, the
\* put of the workflow or triggers.activate resolves: the next call is made.
CallResolve(p) ==
    /\ prov[p].pc \in {"agents.getApiKey", "agents.generateAuthToken",
                       "integrations.getOrCreateConnection", "tasks.create",
                       "put workflow", "triggers.activate"}
    /\ prov' = [prov EXCEPT ![p] = Await(Following(prov[p].pc), @)]
    /\ UNCHANGED <<fetchVars, stateFile, platform>>

\* saveAuthToken resolves: the new entry is stored into a state read afresh
\* and provisionAgent returns.
SaveAuthTokenResolve(p) ==
    /\ prov[p].pc = "agents.saveAuthToken"
    /\ stateFile' = [stateFile EXCEPT
            !.agents = Put(@, prov[p].agentName, prov[p].agent)]
    /\ prov' = [prov EXCEPT ![p].pc = "provisionWorkflow"]
    /\ UNCHANGED <<fetchVars, platform>>

\* provisionWorkflow up to its first await: a workflow recorded in the state
\* has its trigger fetched, to be updated; without one a workflow is created.
ProvisionWorkflow(p) ==
    /\ prov[p].pc = "provisionWorkflow"
    /\ LET state == WithWorkflowsOf(stateFile, prov[p].agentName)
           existingWorkflow == WorkflowOf(state, prov[p].agentName)
       IN  prov' = [prov EXCEPT ![p] =
               IF existingWorkflow # Undefined
               THEN Await("triggers.get",
                          [@ EXCEPT !.state = state,
                                    !.workflowId = existingWorkflow.workspaceId,
                                    !.triggerId = existingWorkflow.triggerId])
               ELSE Await("workflows.create", [@ EXCEPT !.state = state])]
    /\ UNCHANGED <<fetchVars, stateFile, platform>>

\* triggers.get resolves: the trigger is updated.
TriggersGetResolve(p) ==
    /\ prov[p].pc = "triggers.get"
    /\ prov[p].triggerId \in platform.triggers
    /\ prov' = [prov EXCEPT ![p] = Await("triggers.update", @)]
    /\ UNCHANGED <<fetchVars, stateFile, platform>>

\* provisionWorkflow returns, and provision with it.
Return(locals) ==
    [locals EXCEPT !.pc = "done",
                   !.result = ProvisionResult(locals.agent, locals.workflowId,
                                              locals.triggerId)]

\* triggers.update resolves: provision returns the recorded ids.
TriggersUpdateResolve(p) ==
    /\ prov[p].pc = "triggers.update"
    /\ prov[p].triggerId \in platform.triggers
    /\ prov' = [prov EXCEPT ![p] = Return(@)]
    /\ UNCHANGED <<fetchVars, stateFile, platform>>

\* triggers.get or triggers.update rejects: on a 404 the entry is deleted
\* from the state read at the start, that state is written and a workflow is
\* created; any other error is thrown as "Failed to update workflow".
TriggersUpdateReject(p) ==
    /\ prov[p].pc \in {"triggers.get", "triggers.update"}
    /\ \E error \in Failures(prov[p].triggerId \in platform.triggers) :
        IF IsNotFoundError(error)
        THEN LET state == [prov[p].state EXCEPT
                              !.workflows[prov[p].agentName] =
                                  Delete(@, WorkflowName)]
             IN  /\ stateFile' = state
                 /\ prov' = [prov EXCEPT ![p] =
                        Await("workflows.create",
                              [@ EXCEPT !.state = state, !.error = error])]
        ELSE /\ prov' = [prov EXCEPT ![p] =
                    Reject([@ EXCEPT !.error = error], "Failed to update workflow")]
             /\ UNCHANGED stateFile
    /\ UNCHANGED <<fetchVars, platform>>

\* workflows.create resolves with a new workflow.
WorkflowsCreateResolve(p) ==
    /\ prov[p].pc = "workflows.create"
    /\ prov' = [prov EXCEPT ![p] =
           Await(Following(prov[p].pc),
                 [@ EXCEPT !.workflowId = NewId(p, "workflow")])]
    /\ UNCHANGED <<fetchVars, stateFile, platform>>

\* triggers.create resolves with a new trigger; the task is created.
TriggersCreateResolve(p) ==
    /\ prov[p].pc = "triggers.create"
    /\ LET id == NewId(p, "trigger")
       IN  /\ platform' = [platform EXCEPT !.triggers = @ \cup {id}]
           /\ prov' = [prov EXCEPT ![p] =
                  Await("tasks.create", [@ EXCEPT !.triggerId = id])]
    /\ UNCHANGED <<fetchVars, stateFile>>

\* workflows.setRunning resolves: the new entry is stored into a state read
\* afresh and provision returns.
SetRunningResolve(p) ==
    /\ prov[p].pc = "workflows.setRunning"
    /\ LET freshState == WithWorkflowsOf(stateFile, prov[p].agentName)
       IN  stateFile' = [freshState EXCEPT
               !.workflows[prov[p].agentName] =
                   Put(@, WorkflowName,
                       WorkflowState(prov[p].workflowId, prov[p].triggerId))]
    /\ prov' = [prov EXCEPT ![p] = Return(@)]
    /\ UNCHANGED <<fetchVars, platform>>

\* A call outside the two update paths rejects: provision rejects with the
\* error of the call.
CallReject(p) ==
    /\ prov[p].pc \in {"authenticate", "agents.create", "agents.getApiKey",
                       "agents.generateAuthToken", "agents.saveAuthToken",
                       "workflows.create", "integrations.getOrCreateConnection",
                       "triggers.create", "tasks.create", "put workflow",
                       "triggers.activate", "workflows.setRunning"}
    /\ prov' = [prov EXCEPT ![p] = Reject(@, "Request failed with status code 500")]
    /\ UNCHANGED <<fetchVars, stateFile, platform>>

\* Someone deletes an agent or a trigger on the platform.
Deleted ==
    /\ platform.deleted < MaxDeletions
    /\ \/ \E id \in platform.agents :
            platform' = [platform EXCEPT !.agents = @ \ {id},
                                         !.deleted = @ + 1]
       \/ \E id \in platform.triggers :
            platform' = [platform EXCEPT !.triggers = @ \ {id},
                                         !.deleted = @ + 1]
    /\ UNCHANGED <<fetchVars, stateFile, prov>>

NextProvision ==
    \/ Deleted
    \/ \E p \in Provisions :
        \/ Provision(p)
        \/ CreateAuthenticatedClient(p)
        \/ AgentsListResolve(p)
        \/ AgentsListReject(p)
        \/ AuthenticateResolve(p)
        \/ ProvisionAgent(p)
        \/ AgentsGetResolve(p)
        \/ AgentsUpdateResolve(p)
        \/ AgentsUpdateReject(p)
        \/ AgentsCreateResolve(p)
        \/ CallResolve(p)
        \/ SaveAuthTokenResolve(p)
        \/ ProvisionWorkflow(p)
        \/ TriggersGetResolve(p)
        \/ TriggersUpdateResolve(p)
        \/ TriggersUpdateReject(p)
        \/ WorkflowsCreateResolve(p)
        \/ TriggersCreateResolve(p)
        \/ SetRunningResolve(p)
        \/ CallReject(p)

\* No wrapped fetch is in use while provision() runs.
InitProvision == Constructed({Chain(BaseChainId)}, {DefaultMaxValue}, "oneCaller")

SpecProvision == InitProvision /\ [][NextProvision]_vars

\* ---------------------------------------------------------------- liveness

\* Every call the wrapped fetch awaits completes: fetchFn, the body read and
\* the signing capability each resolve or reject in the end.
Completes(i) ==
    \/ FetchResolve(i) \/ FetchReject(i)
    \/ JsonResolve(i) \/ JsonReject(i)
    \/ SignResolve(i) \/ SignReject(i)
    \/ RetryResolve(i) \/ RetryReject(i)

\* An invocation awaits one call at a time, so fairness of the completion of
\* whatever it awaits is fairness of each of the four.
Completion == \A i \in Invocations : WF_vars(Completes(i))

\* One invocation on challenges of at most one offer.
InitLive == Constructed(WalletChains, MaxValues, "oneOffer")

SpecLive == InitLive /\ [][Next]_vars /\ Completion

\* ---------------------------------------------------------------- claims

Done(i) == pc[i] = "done"
Failed(i) == outcome[i].kind = "error"
Statuses402(i) ==
    \A k \in 1..Len(responses[i]) : responses[i][k].status = PAYMENT_REQUIRED
HasRejection(i) ==
    \E k \in 1..Len(signReturns[i]) : signReturns[i][k].kind = "rejected"

\* C1: when fetchFn answers every request with 402 and nothing fails, the
\* invocation calls fetchFn exactly twice and returns the second response,
\* with its 402 status: it is done as soon as the second response arrives.
C1_AtMostOneRetry ==
    \A i \in Invocations :
        (Statuses402(i) /\ ~Failed(i)) =>
            /\ Len(requests[i]) <= 2
            /\ Len(responses[i]) = 2 => Done(i)
            /\ Done(i) =>
                /\ Len(requests[i]) = 2
                /\ Len(responses[i]) = 2
                /\ outcome[i] = Returned(responses[i][2])
                /\ outcome[i].response.seq = 2
                /\ outcome[i].response.status = PAYMENT_REQUIRED

C1_Witness ==
    \E i \in Invocations :
        /\ Done(i) /\ ~Failed(i) /\ Statuses402(i)
        /\ Len(requests[i]) = 2

\* C2: within one invocation the challenge body is read, a requirement is
\* selected and the signing capability is invoked at most once each, and
\* the retry's response is never read or handled again, whatever its status.
C2_AntiLoop ==
    \A i \in Invocations :
        /\ Len(bodyReads[i]) <= 1
        /\ Len(selected[i]) <= 1
        /\ Len(unsignedPayment[i]) <= 1
        /\ Len(signCalls[i]) <= 1
        /\ Len(signReturns[i]) <= 1
        /\ \A k \in 1..Len(bodyReads[i]) : bodyReads[i][k] = 1
        /\ Len(responses[i]) >= 2 => Done(i)

C2_Witness ==
    \E i \in Invocations :
        /\ Done(i)
        /\ Len(responses[i]) = 2
        /\ responses[i][2].status = PAYMENT_REQUIRED
        /\ responses[i][2].body = RepeatedChallenge
        /\ bodyReads[i] = <<1>>
        /\ Len(signCalls[i]) = 1

\* C3: in every execution, whatever the server answers and whatever fails,
\* fetchFn is called at most twice by one invocation.
C3_AtMostTwoCalls ==
    \A i \in Invocations : Len(requests[i]) <= 2

C3_Witness ==
    \E i \in Invocations :
        Done(i) /\ Failed(i) /\ Len(requests[i]) = 2

\* C4: a first response whose status is not 402 is returned as it is after
\* one fetchFn call: no body read, no selection, no signing.
C4_FastPath ==
    \A i \in Invocations :
        (Len(responses[i]) >= 1 /\ responses[i][1].status # PAYMENT_REQUIRED) =>
            /\ Done(i)
            /\ outcome[i] = Returned(responses[i][1])
            /\ Len(requests[i]) = 1
            /\ Len(responses[i]) = 1
            /\ bodyReads[i] = <<>>
            /\ selected[i] = <<>>
            /\ unsignedPayment[i] = <<>>
            /\ signCalls[i] = <<>>

C4_Witness ==
    \E i \in Invocations :
        /\ Done(i)
        /\ Len(responses[i]) = 1
        /\ responses[i][1].status = 500
        /\ outcome[i] = Returned(responses[i][1])

\* C5: once a retry has been sent, a returned value is the retry's response,
\* whatever its status, and never the original 402 response.
C5_RetryResponseReturned ==
    \A i \in Invocations :
        (Len(requests[i]) = 2 /\ outcome[i].kind = "response") =>
            /\ Len(responses[i]) = 2
            /\ outcome[i].response = responses[i][2]
            /\ outcome[i].response.seq = 2

C5_Witness ==
    \E i \in Invocations :
        /\ Len(requests[i]) = 2
        /\ outcome[i].kind = "response"
        /\ outcome[i].response.status = 500

\* The body of the challenge the invocation received first.
ChallengeBody(i) == responses[i][1].body
Challenged(i) ==
    Len(responses[i]) >= 1 /\ responses[i][1].status = PAYMENT_REQUIRED

\* C6: when the selected requirement's maxAmountRequired exceeds maxValue the
\* invocation fails with the amount error after exactly one fetchFn call:
\* nothing is built, the signing capability is not invoked, no retry is sent.
C6_CeilingEnforced ==
    \A i \in Invocations :
        (/\ selected[i] # <<>>
         /\ selected[i][1] # Undefined
         /\ BigIntParses(selected[i][1].maxAmountRequired)
         /\ BigIntOf(selected[i][1].maxAmountRequired) > maxValue) =>
            /\ Done(i)
            /\ outcome[i] = Thrown("Payment amount exceeds maximum allowed")
            /\ Len(requests[i]) = 1
            /\ unsignedPayment[i] = <<>>
            /\ signCalls[i] = <<>>
            /\ signReturns[i] = <<>>

\* The spec's example: 200000 asked under a ceiling of 100000.
C6_Witness ==
    \E i \in Invocations :
        /\ maxValue = DefaultMaxValue
        /\ selected[i] # <<>>
        /\ selected[i][1] # Undefined
        /\ selected[i][1].maxAmountRequired = Amount200000
        /\ outcome[i] = Thrown("Payment amount exceeds maximum allowed")

\* The typed message the signer sees for an authorization.
MessageOf(authorization) ==
    [from |-> GetAddress(authorization.from),
     to |-> GetAddress(authorization.to),
     value |-> BigIntOf(authorization.value),
     validAfter |-> BigIntOf(authorization.validAfter),
     validBefore |-> BigIntOf(authorization.validBefore),
     nonce |-> authorization.nonce]

\* C7: encodePayment is never handed a payload whose signature is undefined,
\* and the X-PAYMENT header of every retry decodes to a payload that has a
\* signature, the one the signing capability returned over that payload's
\* own authorization.
C7_NoUnsignedPayment ==
    \A i \in Invocations :
        /\ \A k \in 1..Len(encoded[i]) :
              encoded[i][k].payload.signature # Undefined
        /\ \A k \in 2..Len(requests[i]) :
              LET header == requests[i][k].init.headers.entries["X-PAYMENT"]
                  payload == DecodePayment(header).payload
              IN  /\ "signature" \in DOMAIN payload
                  /\ Len(signReturns[i]) >= 1
                  /\ payload.signature = signReturns[i][1]
                  /\ payload.signature.kind = "signature"
                  /\ payload.signature.message = MessageOf(payload.authorization)

C7_Witness ==
    \E i \in Invocations :
        /\ Len(requests[i]) = 2
        /\ Len(encoded[i]) = 1
        /\ "signature" \in
              DOMAIN DecodePayment(requests[i][2].init.headers.entries["X-PAYMENT"]).payload

\* C8: when the signing capability rejects, or signAuthorization throws for
\* a wallet without a chain, the invocation ends with that error after one
\* fetchFn call: no retry, signed or not, and no second signing attempt.
C8_SigningFailureTerminal ==
    \A i \in Invocations :
        /\ HasRejection(i) =>
              /\ Done(i)
              /\ outcome[i] = Thrown("signer rejected")
              /\ Len(requests[i]) = 1
              /\ Len(signCalls[i]) = 1
              /\ Len(signReturns[i]) = 1
              /\ encoded[i] = <<>>
        /\ (~HasChainId(walletChain) /\ unsignedPayment[i] # <<>>) =>
              /\ Done(i)
              /\ outcome[i] = Thrown("Wallet client must have a chain configured")
              /\ Len(requests[i]) = 1
              /\ signCalls[i] = <<>>
              /\ encoded[i] = <<>>

C8_Witness ==
    \E i \in Invocations :
        HasRejection(i) /\ Done(i) /\ Len(requests[i]) = 1

\* A wallet without a chain reaches signAuthorization and fails there.
C8_WitnessNoChain ==
    \E i \in Invocations :
        /\ ~HasChainId(walletChain)
        /\ unsignedPayment[i] # <<>>
        /\ outcome[i] = Thrown("Wallet client must have a chain configured")

\* A 402 body that is no JSON, or JSON without a non-empty accepts list.
Malformed(body) ==
    \/ body.kind = "text"
    \/ body.kind = "null"
    \/ body.kind = "object" /\ (~body.hasAccepts \/ body.accepts = <<>>)

\* C9: a challenge whose body does not parse, or whose accepts list is
\* missing or empty, ends the invocation with an error after one fetchFn
\* call: nothing is built or signed and no retry is sent.
C9_MalformedChallenge ==
    \A i \in Invocations :
        (Challenged(i) /\ Malformed(ChallengeBody(i))) =>
            /\ pc[i] \in {"parsing", "done"}
            /\ Done(i) => Failed(i)
            /\ Len(requests[i]) = 1
            /\ unsignedPayment[i] = <<>>
            /\ signCalls[i] = <<>>
            /\ encoded[i] = <<>>

C9_Witness ==
    \E i \in Invocations :
        /\ Challenged(i)
        /\ ChallengeBody(i).kind = "object"
        /\ ChallengeBody(i).hasAccepts
        /\ ChallengeBody(i).accepts = <<>>
        /\ selected[i] = <<Undefined>>
        /\ Done(i) /\ Failed(i)

C9_WitnessNotJson ==
    \E i \in Invocations :
        Challenged(i) /\ ChallengeBody(i).kind = "text" /\ Done(i) /\ Failed(i)

\* A challenge with offers none of which has the scheme "exact", handled.
NoExactOffer(i) ==
    /\ Challenged(i)
    /\ ChallengeBody(i).kind = "object"
    /\ ChallengeBody(i).hasAccepts
    /\ ChallengeBody(i).accepts # <<>>
    /\ \A r \in Range(ChallengeBody(i).accepts) : r.scheme # "exact"
    /\ pc[i] # "parsing"

Negotiated(i) ==
    /\ Challenged(i)
    /\ ChallengeBody(i).kind = "object"
    /\ ChallengeBody(i).hasAccepts
    /\ ChallengeBody(i).accepts # <<>>
    /\ selected[i] # <<>>

Accepts(i) == ChallengeBody(i).accepts

\* The positions of the list whose offer is "exact", and those among them
\* on the wallet's network.
ExactAt(list) == {k \in 1..Len(list) : list[k].scheme = "exact"}
PreferredAt(list, chain) ==
    IF NetworkOf(chain) = Undefined THEN {}
    ELSE {k \in ExactAt(list) : list[k].network = NetworkOf(chain).value}

Least(S) == CHOOSE k \in S : \A j \in S : k <= j

\* C11: with a preferred network, on a list holding an "exact" offer of that
\* network, select returns the first such offer in list order, whatever
\* stands before or after it and whatever the amounts are.
C11_PreferredNetworkFirst ==
    \A i \in Invocations :
        (Negotiated(i) /\ PreferredAt(Accepts(i), walletChain) # {}) =>
            selected[i] = <<Accepts(i)[Least(PreferredAt(Accepts(i), walletChain))]>>

\* The first offer of the preferred network asks more than a later one, and
\* is selected.
C11_Witness ==
    \E i \in Invocations :
        /\ Negotiated(i)
        /\ Len(Accepts(i)) = 2
        /\ PreferredAt(Accepts(i), walletChain) = {1, 2}
        /\ BigIntOf(Accepts(i)[1].maxAmountRequired)
              > BigIntOf(Accepts(i)[2].maxAmountRequired)
        /\ selected[i] = <<Accepts(i)[1]>>

\* An offer of another scheme stands first, the preferred one second.
C11_WitnessSecond ==
    \E i \in Invocations :
        /\ Negotiated(i)
        /\ PreferredAt(Accepts(i), walletChain) = {2}
        /\ selected[i] = <<Accepts(i)[2]>>

C12_WitnessNoExact ==
    \E i \in Invocations :
        /\ Negotiated(i)
        /\ NetworkOf(walletChain) = Undefined
        /\ ExactAt(Accepts(i)) = {}
        /\ Len(Accepts(i)) = 2
        /\ selected[i] = <<Accepts(i)[1]>>

\* The payload the X-PAYMENT header of the retry decodes to.
SentPayment(i) == DecodePayment(requests[i][2].init.headers.entries["X-PAYMENT"])

\* C13: the payload of the retry comes from the selected requirement, the
\* challenge and the signer alone: to is payTo, value is maxAmountRequired as
\* the same string, from is the signer's address, scheme and network are the
\* requirement's, x402Version is the challenge body's.
C13_PayloadFromRequirement ==
    \A i \in Invocations :
        Len(requests[i]) = 2 =>
            LET sel == selected[i][1]
                auth == SentPayment(i).payload.authorization
            IN  /\ auth.to = sel.payTo
                /\ auth.value = sel.maxAmountRequired
                /\ auth.from = PayerAddress
                /\ auth.from = signCalls[i][1].account
                /\ SentPayment(i).scheme = sel.scheme
                /\ SentPayment(i).network = sel.network
                /\ SentPayment(i).x402Version = ChallengeBody(i).x402Version

C13_Witness ==
    \E i \in Invocations :
        /\ Len(requests[i]) = 2
        /\ SentPayment(i).payload.authorization.value = Amount010000
        /\ SentPayment(i).x402Version = 2
        /\ SentPayment(i).network = "base-sepolia"

\* The authorizations createPaymentHeader has built for an invocation,
\* each with the requirement it was built from.
Authorization(i) == Last(unsignedPayment[i]).payload.authorization
Requirement(i) == Last(selected[i])

\* C14: for every authorization built, validBefore - validAfter is the
\* requirement's maxTimeoutSeconds + 600 exactly, whatever the clock shows at
\* each of its reads.
C14_WindowWidth ==
    \A i \in Invocations :
        unsignedPayment[i] # <<>> =>
            BigIntOf(Authorization(i).validBefore)
                - BigIntOf(Authorization(i).validAfter)
              = Requirement(i).maxTimeoutSeconds + ClockSkewSeconds

\* C15: for every authorization that is signed, validAfter < validBefore,
\* whatever integer maxTimeoutSeconds the challenge carries.
C15_WindowOrdered ==
    \A i \in Invocations :
        \A k \in 1..Len(encoded[i]) :
            LET auth == encoded[i][k].payload.authorization
            IN  encoded[i][k].payload.signature # Undefined =>
                    BigIntOf(auth.validAfter) < BigIntOf(auth.validBefore)

\* C16: the domain handed to the signing capability has the chainId of the
\* selected requirement's network, the requirement's asset as
\* verifyingContract and the name and version of its extra, also for a
\* requirement of another network than the wallet's chain.
C16_DomainOfRequirement ==
    \A i \in Invocations :
        signCalls[i] # <<>> =>
            LET domain == Last(signCalls[i]).domain
            IN  /\ domain.chainId = NETWORK_CHAINS[Requirement(i).network]
                /\ GetAddress(domain.verifyingContract)
                      = GetAddress(Requirement(i).asset)
                /\ domain.name = Str(Requirement(i).extra.name)
                /\ domain.version = Str(Requirement(i).extra.version)

\* The selected requirement names a payTo or an asset that is no address.
InvalidAddress(i) ==
    /\ selected[i] # <<>>
    /\ Requirement(i) # Undefined
    /\ ~IsAddress(Requirement(i).payTo) \/ ~IsAddress(Requirement(i).asset)

\* C17: when the selected requirement's payTo or asset is not a valid
\* address, the invocation fails with an error before the signing capability
\* is invoked, and no retry is sent.
C17_InvalidAddressFailsBeforeSigning ==
    \A i \in Invocations :
        InvalidAddress(i) =>
            /\ Done(i) /\ Failed(i)
            /\ signCalls[i] = <<>>
            /\ signReturns[i] = <<>>
            /\ Len(requests[i]) = 1

\* A wallet with a chain, an affordable offer whose asset is no address:
\* getAddress throws.
C17_Witness ==
    \E i \in Invocations :
        /\ InvalidAddress(i)
        /\ ~IsAddress(Requirement(i).asset)
        /\ outcome[i] = Thrown("InvalidAddressError")

\* The same for a payTo that is no address.
C17_WitnessPayTo ==
    \E i \in Invocations :
        /\ InvalidAddress(i)
        /\ ~IsAddress(Requirement(i).payTo)
        /\ outcome[i] = Thrown("InvalidAddressError")

\* C18: a rejection of fetchFn reaches the caller as it is and nothing is
\* sent after it: on the original request there is no further call and no
\* signing, on the retry there is no third call.
C18_TransportFailurePropagated ==
    \A i \in Invocations :
        rejections[i] # <<>> =>
            /\ Len(rejections[i]) = 1
            /\ Done(i)
            /\ outcome[i] = Thrown(rejections[i][1])
            /\ IF responses[i] = <<>>
               THEN /\ Len(requests[i]) = 1
                    /\ signCalls[i] = <<>>
                    /\ unsignedPayment[i] = <<>>
               ELSE /\ Len(requests[i]) = 2
                    /\ Len(responses[i]) = 1

\* fetchFn rejects on the retry.
C18_Witness ==
    \E i \in Invocations :
        /\ rejections[i] = <<"fetch failed">>
        /\ Len(requests[i]) = 2
        /\ outcome[i] = Thrown("fetch failed")

\* fetchFn rejects on the original request.
C18_WitnessOriginal ==
    \E i \in Invocations :
        /\ rejections[i] = <<"AbortError">>
        /\ Len(requests[i]) = 1
        /\ outcome[i] = Thrown("AbortError")

\* C19: when the caller's signal fires while the invocation awaits the
\* signing capability, no retry is issued to fetchFn afterwards.
C19_NoRetryAfterAbortInSigning ==
    \A i \in Invocations :
        aborted[i] = "signing" => Len(requests[i]) = 1

\* Everything the model keeps for one invocation.
Local(i) ==
    <<pc[i], init[i], requests[i], responses[i], bodyReads[i], selected[i],
      unsignedPayment[i], signCalls[i], signReturns[i], encoded[i], outcome[i],
      aborted[i], rejections[i], nonceDraws[i], workflow[i]>>

\* The retry of an invocation carries the signed authorization built from the
\* requirement selected out of the invocation's own challenge.
OwnPayment(i) ==
    Len(requests[i]) = 2 =>
        LET sel == SelectPaymentRequirements(Accepts(i), NetworkOf(walletChain))
            auth == SentPayment(i).payload.authorization
        IN  /\ selected[i] = <<sel>>
            /\ SentPayment(i).scheme = sel.scheme
            /\ SentPayment(i).network = sel.network
            /\ auth.to = sel.payTo
            /\ auth.value = sel.maxAmountRequired
            /\ auth = unsignedPayment[i][1].payload.authorization
            /\ SentPayment(i).payload.signature
                  = SignatureOf(TypedData(walletChain, auth, sel))

\* An invocation resolves with the response to its own last request.
OwnResponse(i) ==
    outcome[i].kind = "response" =>
        /\ outcome[i].response = Last(responses[i])
        /\ outcome[i].response.seq = Len(requests[i])

\* A step is one invocation's: it leaves the others' state and the wrapped
\* fetch's configuration as they are.
OneInvocationSteps ==
    /\ walletChain' = walletChain
    /\ maxValue' = maxValue
    /\ env' = env
    /\ provisionVars' = provisionVars
    /\ \E i \in Invocations :
        \A j \in Invocations \ {i} : Local(j)' = Local(j)

\* C20: concurrent invocations of one wrapped fetch are independent under
\* every interleaving: each retry carries the header built from the
\* requirement selected out of its own challenge, each invocation returns
\* its own response, and no step of one invocation touches another's state.
C20_ConcurrentInvocationsIndependent ==
    /\ [](\A i \in Invocations : OwnPayment(i) /\ OwnResponse(i))
    /\ [][OneInvocationSteps]_vars

\* Two invocations await their retries at once, having signed for different
\* networks.
C20_Witness ==
    /\ pc["c1"] = "retrying" /\ pc["c2"] = "retrying"
    /\ SentPayment("c1").network = "base"
    /\ SentPayment("c2").network = "base-sepolia"

\* Every value createNonce has returned in this run, with the call it was
\* returned to.
Draws ==
    UNION {{<<i, k>> : k \in 1..Len(nonceDraws[i])} : i \in Invocations}

\* The random source returned no value twice.
NoCollision ==
    \A d, e \in Draws :
        d # e => nonceDraws[d[1]][d[2]] # nonceDraws[e[1]][e[2]]

\* C21: every authorization carries the nonce of a createNonce call made for
\* it alone, and nothing is kept between calls: as long as the random source
\* returns no value twice, no nonce and no authorization is in the payment
\* headers of two different retries.
C21_NonceFreshness ==
    /\ \A i \in Invocations :
        /\ Len(nonceDraws[i]) = Len(unsignedPayment[i])
        /\ \A k \in 1..Len(unsignedPayment[i]) :
              unsignedPayment[i][k].payload.authorization.nonce = nonceDraws[i][k]
        /\ Len(requests[i]) = 2 =>
              SentPayment(i).payload.authorization.nonce = Last(nonceDraws[i])
    /\ NoCollision =>
        \A i, j \in Invocations :
            (i # j /\ Len(requests[i]) = 2 /\ Len(requests[j]) = 2) =>
                /\ SentPayment(i).payload.authorization.nonce
                      # SentPayment(j).payload.authorization.nonce
                /\ SentPayment(i).payload.authorization
                      # SentPayment(j).payload.authorization

\* Two invocations answered with the same challenge have both sent their
\* retry, each with the nonce of its own createNonce call.
C21_Witness ==
    /\ Len(requests["c1"]) = 2 /\ Len(requests["c2"]) = 2
    /\ responses["c1"][1].body = responses["c2"][1].body
    /\ NoCollision
    /\ SentPayment("c1").payload.authorization.nonce = "0x01"
    /\ SentPayment("c2").payload.authorization.nonce = "0x02"

\* The outcome is the original response, which is no 402.
OriginalResponse(i) ==
    /\ outcome[i].kind = "response"
    /\ Len(requests[i]) = 1
    /\ outcome[i].response = responses[i][1]
    /\ outcome[i].response.status # PAYMENT_REQUIRED

\* The outcome is the response to the retry, whatever its status.
RetryResponse(i) ==
    /\ outcome[i].kind = "response"
    /\ Len(requests[i]) = 2 /\ Len(responses[i]) = 2
    /\ outcome[i].response = responses[i][2]

\* Exactly one of the three outcomes.
Terminal(i) ==
    /\ outcome[i] # Pending
    /\ OriginalResponse(i) \/ RetryResponse(i) \/ Failed(i)
    /\ ~(OriginalResponse(i) /\ RetryResponse(i))

\* C22: when every fetchFn call, body read and signing call completes, every
\* invocation made reaches a terminal outcome, which is the original response
\* (no 402), the retry's response or an error, and keeps it; no sequence of
\* 402 answers keeps it running.
C22_Terminates ==
    /\ [](\A i \in Invocations : Done(i) <=> outcome[i] # Pending)
    /\ [](\A i \in Invocations : Done(i) => Terminal(i))
    /\ [][\A i \in Invocations : Done(i) => outcome'[i] = outcome[i]]_vars
    /\ \A i \in Invocations : (pc[i] # "initial") ~> Done(i)

\* Answered with 402 twice, the invocation has ended with the second 402.
C22_Witness ==
    \E i \in Invocations :
        /\ Terminal(i)
        /\ RetryResponse(i)
        /\ responses[i][1].status = PAYMENT_REQUIRED
        /\ outcome[i].response.status = PAYMENT_REQUIRED

\* The fields of an authorization, and those that hold integers.
AuthorizationFields == {"from", "to", "value", "validAfter", "validBefore", "nonce"}
IntegerFields == {"value", "validAfter", "validBefore"}

AmountExceeded == Thrown("Payment amount exceeds maximum allowed")

\* The amount of the requirement invocation i selected, when it is an integer.
HasSelectedAmount(i) ==
    /\ selected[i] # <<>>
    /\ selected[i][1] # Undefined
    /\ BigIntParses(selected[i][1].maxAmountRequired)
SelectedAmount(i) == BigIntOf(selected[i][1].maxAmountRequired)

\* C27: the ceiling check rejects exactly when the selected amount is
\* strictly greater than maxValue: every authorization handed to the signing
\* capability has a value of at most maxValue, an invocation fails with the
\* amount error only above maxValue and always above it, and below or at
\* maxValue the payload is built.
C27_CeilingStrict ==
    \A i \in Invocations :
        /\ \A k \in 1..Len(signCalls[i]) :
              signCalls[i][k].message.value <= maxValue
        /\ outcome[i] = AmountExceeded =>
              HasSelectedAmount(i) /\ SelectedAmount(i) > maxValue
        /\ HasSelectedAmount(i) =>
              /\ SelectedAmount(i) > maxValue => outcome[i] = AmountExceeded
              /\ SelectedAmount(i) <= maxValue => unsignedPayment[i] # <<>>

\* An amount equal to the default ceiling of 100000 has been handed to the
\* signing capability.
C27_Witness ==
    \E i \in Invocations :
        /\ maxValue = DefaultMaxValue
        /\ HasSelectedAmount(i)
        /\ SelectedAmount(i) = DefaultMaxValue
        /\ Len(signCalls[i]) = 1
        /\ signCalls[i][1].message.value = maxValue

\* The position of a step in the protocol.
Rank(step) ==
    CASE step = "initial" -> 0
      [] step = "sent" -> 1
      [] step = "parsing" -> 2
      [] step = "signing" -> 3
      [] step = "retrying" -> 4
      [] step = "done" -> 5

\* What has happened in invocation i before each of its steps.
Precedence(i) ==
    /\ responses[i] # <<>> => requests[i] # <<>>
    /\ bodyReads[i] # <<>> => Challenged(i)
    /\ selected[i] # <<>> =>
          bodyReads[i] # <<>> /\ ChallengeBody(i).kind = "object"
    /\ unsignedPayment[i] # <<>> =>
          HasSelectedAmount(i) /\ SelectedAmount(i) <= maxValue
    /\ signCalls[i] # <<>> =>
          /\ unsignedPayment[i] # <<>>
          /\ HasSelectedAmount(i) /\ SelectedAmount(i) <= maxValue
    /\ signReturns[i] # <<>> => signCalls[i] # <<>>
    /\ encoded[i] # <<>> =>
          /\ signReturns[i] # <<>>
          /\ signReturns[i][1] = SignatureOf(signCalls[i][1])
    /\ Len(requests[i]) > 1 =>
          /\ encoded[i] # <<>>
          /\ signReturns[i] # <<>>
          /\ signReturns[i][1] = SignatureOf(signCalls[i][1])

\* C26: in every invocation the steps occur in the order original send,
\* challenge parse, selection, ceiling check, signing, encode, retry: a step
\* never goes back, a call to the signing capability is preceded by a ceiling
\* check that passed, and a retry by a signing call that returned a signature.
C26_ProtocolOrder ==
    /\ [](\A i \in Invocations : Precedence(i))
    /\ [][\A i \in Invocations :
            pc'[i] # pc[i] => Rank(pc'[i]) > Rank(pc[i])]_vars

\* An invocation has gone through every step: its retry was answered.
C26_Witness ==
    \E i \in Invocations :
        /\ Rank(pc[i]) = 5
        /\ Len(responses[i]) = 2
        /\ Len(requests[i]) = 2
        /\ Len(signCalls[i]) = 1
        /\ Len(signReturns[i]) = 1
        /\ Len(encoded[i]) = 1

\* The header entries a caller's init holds, in an object or in a Headers.
HeaderEntries(callerInit) ==
    IF callerInit = Undefined THEN <<>> ELSE callerInit.headers.entries

\* A field of the caller's init.
Field(callerInit, name) ==
    IF callerInit = Undefined THEN Undefined ELSE callerInit[name]

\* C28: the first fetchFn call receives the caller's input and init
\* unchanged; the retry receives the same input, the same method, body and
\* signal, and headers equal to the caller's header entries plus X-PAYMENT
\* and Access-Control-Expose-Headers.
C28_RequestFrame ==
    \A i \in Invocations :
        /\ requests[i] # <<>> =>
              requests[i][1] = [input |-> Url, init |-> init[i]]
        /\ Len(requests[i]) = 2 =>
              LET retry == requests[i][2]
                  sent == retry.init.headers.entries
                  own == HeaderEntries(init[i])
              IN  /\ retry.input = requests[i][1].input
                  /\ \A f \in {"method", "body", "signal"} :
                        retry.init[f] = Field(init[i], f)
                  /\ DOMAIN sent = DOMAIN own
                        \cup {"X-PAYMENT", "Access-Control-Expose-Headers"}
                  /\ \A h \in DOMAIN own : sent[h] = own[h]
                  /\ sent["X-PAYMENT"] = EncodePayment(encoded[i][1])
                  /\ sent["Access-Control-Expose-Headers"]
                        = Str("X-PAYMENT-RESPONSE")

\* The final response of the payment-aware fetch, once it has returned one.
HasFinalResponse(i) == outcome[i].kind = "response"
FinalResponse(i) == outcome[i].response

\* C24: payWorkflow returns a result, with success: true and the parsed body,
\* only when the final response of the payment-aware fetch is ok; for every
\* final response that is not ok, a second 402 included, it rejects with
\* "Workflow execution failed: <status> ..." and no request follows.
C24_PayWorkflowResult ==
    /\ [](\A i \in Invocations :
            /\ workflow[i].result.kind = "result" =>
                  /\ HasFinalResponse(i)
                  /\ FinalResponse(i).status \in 200..299
                  /\ workflow[i].result
                        = PaymentResult(FinalResponse(i).body)
                  /\ workflow[i].result.success
            /\ (/\ workflow[i].pc = "done"
                /\ HasFinalResponse(i)
                /\ FinalResponse(i).status \notin 200..299) =>
                  /\ workflow[i].result.kind = "error"
                  /\ workflow[i].result.error = "Workflow execution failed"
                  /\ workflow[i].result.status = FinalResponse(i).status
            /\ workflow[i].pc \in {"readingError", "readingData", "done"} =>
                  Len(requests[i]) <= 2 /\ workflow[i].lists <= 1)
    /\ [][\A i \in Invocations :
            workflow[i].pc \in {"readingError", "readingData", "done"} =>
                requests'[i] = requests[i]]_vars

\* The retry was answered with a second 402 and payWorkflow has rejected
\* with the status 402.
C24_Witness ==
    \E i \in Invocations :
        /\ Len(responses[i]) = 2
        /\ responses[i][2].status = PAYMENT_REQUIRED
        /\ workflow[i].pc = "done"
        /\ workflow[i].result
              = ExecutionFailed(PAYMENT_REQUIRED, RepeatedChallenge)

\* payWorkflow has returned the parsed body of the retry's ok response.
C24_WitnessPaid ==
    \E i \in Invocations :
        /\ Len(responses[i]) = 2
        /\ workflow[i].result = PaymentResult(OkBody)

\* The calls that create a resource, and those of the two update paths.
CreateCalls == {"agents.create", "workflows.create", "triggers.create", "tasks.create"}
UpdateCalls == {"agents.get", "agents.update", "triggers.get", "triggers.update"}

\* provision call p has returned a result.
Provisioned(p) == prov[p].result.kind = "result"

\* C25: after one provision(config) has succeeded, with the agent and the
\* trigger still on the platform, a later provision of the same agent and
\* workflow names issues no agents.create, workflows.create, triggers.create
\* or tasks.create call and, when it returns, returns the same agentId,
\* apiKey, workflowId, triggerId and triggerToken.
C25_ProvisionIdempotent ==
    \A q \in Provisions :
        LET prior == prov[q].prior
        IN  (/\ prior # Undefined
             /\ prior.agentId \in platform.agents
             /\ prior.triggerId \in platform.triggers) =>
                /\ Range(prov[q].calls) \cap CreateCalls = {}
                /\ Provisioned(q) =>
                      /\ prov[q].result.agentId = prior.agentId
                      /\ prov[q].result.apiKey = prior.apiKey
                      /\ prov[q].result.workflowId = prior.workflowId
                      /\ prov[q].result.triggerId = prior.triggerId
                      /\ prov[q].result.triggerToken = prior.triggerToken

\* A provision that followed a successful one of the same names has updated
\* the agent and the trigger and has returned.
C25_Witness ==
    \E q \in Provisions :
        /\ prov[q].prior # Undefined
        /\ Provisioned(q)
        /\ {"agents.update", "triggers.update"} \subseteq Range(prov[q].calls)
        /\ prov[q].result.agentId \in platform.agents
        /\ prov[q].result.triggerId \in platform.triggers

\* C29: for two provision calls for different agent names, once both have
\* returned the state file holds the userApiKey and the agent and workflow
\* entries written by both calls.
C29_NoLostEntries ==
    \A p, q \in Provisions :
        (/\ Provisioned(p) /\ Provisioned(q)
         /\ prov[p].agentName # prov[q].agentName
         /\ platform.deleted = 0) =>
            /\ stateFile.userApiKey # Undefined
            /\ AgentOf(stateFile, prov[p].agentName) # Undefined
            /\ AgentOf(stateFile, prov[p].agentName).id = prov[p].result.agentId
            /\ WorkflowOf(stateFile, prov[p].agentName) # Undefined
            /\ WorkflowOf(stateFile, prov[p].agentName).workspaceId
                  = prov[p].result.workflowId

\* error.response?.status === 404
HasStatus404(error) ==
    error.response # Undefined /\ error.response.status = 404

\* The step of call p in which a call of an update path rejects.
UpdateRejected(p) ==
    /\ prov[p].pc \in UpdateCalls
    /\ \/ prov'[p].pc \in CreateCalls
       \/ prov'[p].result.kind = "error"

\* The entry call p tried to update, in a state file.
Recorded(file, p) ==
    IF prov[p].pc \in {"agents.get", "agents.update"}
    THEN AgentOf(file, prov[p].agentName)
    ELSE WorkflowOf(file, prov[p].agentName)

\* C30: when the call that fetches or updates a recorded agent or workflow
\* fails with an error other than HTTP 404, provision rejects with "Failed to
\* update ...", issues no create call and leaves the state file as it is;
\* on a 404 alone the entry is removed and the resource is created anew.
C30_NoDuplicateOnUpdateFailure ==
    /\ [][\A p \in Provisions : UpdateRejected(p) =>
            IF HasStatus404(prov'[p].error)
            THEN /\ Recorded(stateFile', p) = Undefined
                 /\ prov'[p].pc \in {"agents.create", "workflows.create"}
                 /\ prov'[p].result = Pending
            ELSE /\ prov'[p].pc = "done"
                 /\ prov'[p].result =
                       Thrown(IF prov[p].pc \in {"agents.get", "agents.update"}
                              THEN "Failed to update agent"
                              ELSE "Failed to update workflow")
                 /\ prov'[p].calls = prov[p].calls
                 /\ stateFile' = stateFile]_vars
    /\ [](\A p \in Provisions :
            prov[p].result \in {Thrown("Failed to update agent"),
                                Thrown("Failed to update workflow")} =>
                /\ prov[p].pc = "done"
                /\ Last(prov[p].calls) \in UpdateCalls
                /\ ~HasStatus404(prov[p].error))
    /\ [][\A p \in Provisions :
            prov[p].pc = "done" => prov'[p] = prov[p]]_vars

\* An update of a recorded agent has failed with a 500: provision has
\* rejected, and the entry is still in the state file.
C30_Witness ==
    \E p \in Provisions :
        /\ prov[p].result = Thrown("Failed to update agent")
        /\ prov[p].error = ServerError
        /\ AgentOf(stateFile, prov[p].agentName) = prov[p].agent

\* The trigger of a recorded workflow was gone: the 404 has removed the entry
\* and a new workflow has been created.
C30_WitnessNotFound ==
    \E p \in Provisions :
        /\ prov[p].error = NotFound
        /\ "triggers.get" \in Range(prov[p].calls)
        /\ "workflows.create" \in Range(prov[p].calls)
        /\ Provisioned(p)
====
